---- MODULE Spec2Model ----
(***************************************************************************)
(* Budget projection engine (src/src/calculations.ts).                     *)
(*                                                                         *)
(* Calendar dates are day numbers: the number of days since 1970-01-01 of  *)
(* the local calendar date the Date object stands for (all Date values in  *)
(* calculations.ts are local midnights).  Months are 0-based as in the     *)
(* JavaScript Date API.  Money amounts are integers.                       *)
(***************************************************************************)
EXTENDS Integers, Sequences, FiniteSets, TLC

VARIABLES
    config,      \* the BudgetConfig handed to the function under check
    today,       \* the calendar date of `new Date()`
    pc,          \* which operation has run
    arg,         \* the other arguments of the call (a record)
    dates,       \* a Date[] (generatePayDates, expense stepping, futurePayDates)
    allOccurrences, \* an ExpenseOccurrence[] (generateExpenseOccurrences)
    projection,  \* a ProjectionEntry[] result (generateProjection)
    goalDates,   \* a GoalProjection result (calculateGoalDates)
    result       \* what the last spend-tracking function returned

vars == <<config, today, pc, arg, dates, allOccurrences, projection, goalDates, result>>

(***************************************************************************)
(* null / undefined of an optional date or index (all real dates and       *)
(* indices are >= 0).                                                      *)
(***************************************************************************)
Null == -1

(***************************************************************************)
(* Bounds of the model.                                                    *)
(***************************************************************************)
\* loop iterations any `while` of the program is given (never exhausted)
MaxIter == 2048
\* nextPayDate / date inputs: BaseDate + k * StartStride, k in 0..MaxStartSteps
MaxStartSteps == 40
\* largest maxCount handed to generatePayDates on its own
MaxCount == 5
StartStride == 11
\* expense anchors are drawn from BaseDate .. BaseDate + MaxAnchorDays
MaxAnchorDays == 430
\* occurrences stepped after the anchor
MaxSteps == 12
\* a next pay date ahead lies MaxPayOffset days after today
MaxPayOffset == 4
\* a pay date that has passed lies StaleDays before today
StaleDays == 10
\* the day advances DayStride days at a time, at most MaxDaySteps times
DayStride == 20
MaxDaySteps == 4

\* SpecTransition: the days between two openings of the app, how many
\* times the day changes, and the history length up to which the user
\* enters balances
TransitionStride == 6

MaxOpenDays == 2

MaxHistory == 2

\* SpecBaseline: the longest history recorded and the largest number of
\* periods averaged
MaxEntries == 4

MaxPeriodsToUse == 3

\* SpecPeriods: the longest list of historical periods
MaxPeriods == 2

\* SpecMalformed: the largest maxCount, and the entries a loop that never
\* ends is followed for
MaxLoop == 3

\* SpecStorage: the saves the app issues
MaxSaves == 3

\* expense occurrences are generated HorizonMonths ahead of today
HorizonMonths == 14

(***************************************************************************)
(* Calendar arithmetic: the JavaScript Date API and date-fns.              *)
(***************************************************************************)
Min(a, b) == IF a <= b THEN a ELSE b

IsLeapYear(y) == (y % 4 = 0 /\ y % 100 # 0) \/ y % 400 = 0

\* new Date(year, month + 1, 0).getDate()
lastDayOfMonth(y, m) ==
    IF m = 1 THEN (IF IsLeapYear(y) THEN 29 ELSE 28)
    ELSE IF m \in {3, 5, 8, 10} THEN 30 ELSE 31

DaysBeforeYear(y) ==
    365 * (y - 1970) + ((y - 1969) \div 4) - ((y - 1901) \div 100)
        + ((y - 1601) \div 400)

DaysBeforeMonth(y, m) ==
    LET cum == <<0, 31, 59, 90, 120, 151, 181, 212, 243, 273, 304, 334>>
    IN  cum[m + 1] + (IF m > 1 /\ IsLeapYear(y) THEN 1 ELSE 0)

\* new Date(year, month, day) for 0 <= month <= 11, 1 <= day <= lastDayOfMonth
NewDate(y, m, d) == DaysBeforeYear(y) + DaysBeforeMonth(y, m) + d - 1

getFullYear(n) ==
    LET y0 == 1970 + (n \div 366)
    IN  CHOOSE y \in y0 .. (y0 + 1) :
            DaysBeforeYear(y) <= n /\ n < DaysBeforeYear(y + 1)

\* the month the day-of-year doy (from 0) of the year y falls in
MonthOfYearDay(y, doy) ==
    CHOOSE m \in 0 .. 11 :
        /\ DaysBeforeMonth(y, m) <= doy
        /\ doy < DaysBeforeMonth(y, m) + lastDayOfMonth(y, m)

\* the day of the month of the day-of-year doy (from 0) of the year y
DateOfYearDay(y, doy) == doy - DaysBeforeMonth(y, MonthOfYearDay(y, doy)) + 1

\* the day-of-year (from 0) of the date n, which falls in the year y
YearDay(y, n) == n - DaysBeforeYear(y)

getMonth(n) == MonthOfYearDay(getFullYear(n), YearDay(getFullYear(n), n))

getDate(n) == DateOfYearDay(getFullYear(n), YearDay(getFullYear(n), n))

\* Date.prototype.getDay: 0 = Sunday ... 6 = Saturday (1970-01-01: Thursday)
getDay(n) == (n + 4) % 7

addDays(n, k) == n + k

addWeeks(n, k) == n + 7 * k

\* date-fns addMonths: the same day of the target month, or that month's
\* last day when it is shorter
DateInMonth(y, m, d) == NewDate(y, m, Min(d, lastDayOfMonth(y, m)))

addMonths(n, k) ==
    DateInMonth((getFullYear(n) * 12 + getMonth(n) + k) \div 12,
                (getFullYear(n) * 12 + getMonth(n) + k) % 12,
                getDate(n))

addYears(n, k) == addMonths(n, 12 * k)

\* date-fns differenceInDays of two local midnights
differenceInDays(a, b) == a - b

isBefore(a, b) == a < b

isAfter(a, b) == a > b

\* startOfDay of a value that is already a calendar date
startOfDay(n) == n

\* parseISO of a well-formed YYYY-MM-DD string: that calendar date
parseISO(s) == s

(***************************************************************************)
(* adjustForWeekend                                                        *)
(***************************************************************************)
\* mutant: a Sunday is moved back one day only
adjustForWeekendSundayOff(date, handling) ==
    IF handling = "none" THEN date
    ELSE LET day == getDay(date)
         IN  IF day = 0
             THEN (IF handling = "before" THEN addDays(date, -1)
                                          ELSE addDays(date, 1))
             ELSE IF day = 6
             THEN (IF handling = "before" THEN addDays(date, -1)
                                          ELSE addDays(date, 2))
             ELSE date

adjustForWeekend(date, handling) ==
    IF handling = "none" THEN date
    ELSE LET day == getDay(date)
         IN  IF day = 0
             THEN (IF handling = "before" THEN addDays(date, -2)
                                          ELSE addDays(date, 1))
             ELSE IF day = 6
             THEN (IF handling = "before" THEN addDays(date, -1)
                                          ELSE addDays(date, 2))
             ELSE date

\* Array.prototype.sort of a two-element Date[] by getTime()
SortPair(a, b) == IF b < a THEN <<b, a>> ELSE <<a, b>>

getSemiMonthlyPayDaysForMonth(year, month, semi, weekendHandling) ==
    LET last         == lastDayOfMonth(year, month)
        firstDayNum  == Min(semi.firstPayDay, last)
        firstDay     == NewDate(year, month, firstDayNum)
        secondDayNum == Min(semi.secondPayDay, last)
        secondDay    == NewDate(year, month, secondDayNum)
    IN  SortPair(adjustForWeekend(firstDay, weekendHandling),
                 adjustForWeekend(secondDay, weekendHandling))

getMonthlyPayDayForMonth(year, month, monthly, weekendHandling) ==
    LET last      == lastDayOfMonth(year, month)
        payDayNum == Min(monthly.payDay, last)
    IN  adjustForWeekend(NewDate(year, month, payDayNum), weekendHandling)

(***************************************************************************)
(* generatePayDates.  Each loop of the function is an operator that runs   *)
(* the loop body from a state where the loop condition holds, until it     *)
(* fails (n bounds the iterations; the run is split in four parts, which   *)
(* keeps the evaluation shallow).                                          *)
(***************************************************************************)
\* while (dates.length < maxCount) { ... currentMonth++ ... }, semimonthly
SemiMonthlyBody(cfg, startDate, maxCount, s) ==
    LET payDays == getSemiMonthlyPayDaysForMonth(
                       s.year, s.month, cfg.semiMonthlyConfig, cfg.weekendHandling)
        d1 == IF payDays[1] >= startDate /\ Len(s.dates) < maxCount
              THEN Append(s.dates, payDays[1]) ELSE s.dates
        d2 == IF payDays[2] >= startDate /\ Len(d1) < maxCount
              THEN Append(d1, payDays[2]) ELSE d1
    IN  [year  |-> IF s.month + 1 > 11 THEN s.year + 1 ELSE s.year,
         month |-> IF s.month + 1 > 11 THEN 0 ELSE s.month + 1,
         dates |-> d2]

RECURSIVE SemiMonthlyLoop(_, _, _, _, _)
SemiMonthlyLoop(cfg, startDate, maxCount, s, n) ==
    IF n <= 1 THEN SemiMonthlyBody(cfg, startDate, maxCount, s)
    ELSE LET q == (n + 3) \div 4
             a == SemiMonthlyLoop(cfg, startDate, maxCount, s, q)
             b == SemiMonthlyLoop(cfg, startDate, maxCount, a, q)
             c == SemiMonthlyLoop(cfg, startDate, maxCount, b, q)
         IN  IF Len(a.dates) >= maxCount THEN a
             ELSE IF Len(b.dates) >= maxCount THEN b
             ELSE IF Len(c.dates) >= maxCount THEN c
             ELSE SemiMonthlyLoop(cfg, startDate, maxCount, c, n - 3 * q)

\* while (dates.length < maxCount) { ... currentMonth++ ... }, monthly
MonthlyBody(cfg, startDate, s) ==
    LET payDay == getMonthlyPayDayForMonth(
                      s.year, s.month, cfg.monthlyConfig, cfg.weekendHandling)
    IN  [year  |-> IF s.month + 1 > 11 THEN s.year + 1 ELSE s.year,
         month |-> IF s.month + 1 > 11 THEN 0 ELSE s.month + 1,
         dates |-> IF payDay >= startDate THEN Append(s.dates, payDay)
                   ELSE s.dates]

RECURSIVE MonthlyLoop(_, _, _, _, _)
MonthlyLoop(cfg, startDate, maxCount, s, n) ==
    IF n <= 1 THEN MonthlyBody(cfg, startDate, s)
    ELSE LET q == (n + 3) \div 4
             a == MonthlyLoop(cfg, startDate, maxCount, s, q)
             b == MonthlyLoop(cfg, startDate, maxCount, a, q)
             c == MonthlyLoop(cfg, startDate, maxCount, b, q)
         IN  IF Len(a.dates) >= maxCount THEN a
             ELSE IF Len(b.dates) >= maxCount THEN b
             ELSE IF Len(c.dates) >= maxCount THEN c
             ELSE MonthlyLoop(cfg, startDate, maxCount, c, n - 3 * q)

\* for (let i = 0; i < maxCount; i++) { push(adjust(currentDate)); step }
IntervalBody(cfg, s) ==
    [currentDate |-> IF cfg.paycheckFrequency = "weekly"
                     THEN addWeeks(s.currentDate, 1)
                     ELSE IF cfg.paycheckFrequency = "biweekly"
                     THEN addWeeks(s.currentDate, 2)
                     ELSE s.currentDate,
     i     |-> s.i + 1,
     dates |-> Append(s.dates, adjustForWeekend(s.currentDate, cfg.weekendHandling))]

RECURSIVE IntervalLoop(_, _, _, _)
IntervalLoop(cfg, maxCount, s, n) ==
    IF n <= 1 THEN IntervalBody(cfg, s)
    ELSE LET q == (n + 3) \div 4
             a == IntervalLoop(cfg, maxCount, s, q)
             b == IntervalLoop(cfg, maxCount, a, q)
             c == IntervalLoop(cfg, maxCount, b, q)
         IN  IF a.i >= maxCount THEN a
             ELSE IF b.i >= maxCount THEN b
             ELSE IF c.i >= maxCount THEN c
             ELSE IntervalLoop(cfg, maxCount, c, n - 3 * q)

generatePayDates(cfg, maxCount) ==
    LET startDate == parseISO(cfg.nextPayDate)
        s0 == [year  |-> getFullYear(startDate),
               month |-> getMonth(startDate),
               dates |-> <<>>]
    IN  IF maxCount <= 0 THEN <<>>
        ELSE IF cfg.paycheckFrequency = "semimonthly"
        THEN SemiMonthlyLoop(cfg, startDate, maxCount, s0, MaxIter).dates
        ELSE IF cfg.paycheckFrequency = "monthly"
        THEN MonthlyLoop(cfg, startDate, maxCount, s0, MaxIter).dates
        ELSE IntervalLoop(cfg, maxCount,
                 [currentDate |-> startDate, i |-> 0, dates |-> <<>>],
                 maxCount).dates

(***************************************************************************)
(* Expense recurrence.                                                     *)
(***************************************************************************)
\* mutant: the day is not clamped to the month's length
adjustDayForMonthUnclamped(year, month, originalDay) == originalDay

adjustDayForMonth(year, month, originalDay) ==
    Min(originalDay, lastDayOfMonth(year, month))

\* new Date(next.getFullYear(), next.getMonth(),
\*          adjustDayForMonth(next.getFullYear(), next.getMonth(), originalDay))
OnOriginalDay(next, originalDay) ==
    NewDate(getFullYear(next), getMonth(next),
            adjustDayForMonth(getFullYear(next), getMonth(next), originalDay))

getNextOccurrence(currentDate, frequency, originalDayOfMonth) ==
    CASE frequency = "weekly"    -> addWeeks(currentDate, 1)
      [] frequency = "biweekly"  -> addWeeks(currentDate, 2)
      [] frequency = "monthly"   ->
             OnOriginalDay(addMonths(currentDate, 1), originalDayOfMonth)
      [] frequency = "quarterly" ->
             OnOriginalDay(addMonths(currentDate, 3), originalDayOfMonth)
      [] frequency = "yearly"    ->
             OnOriginalDay(addYears(currentDate, 1), originalDayOfMonth)

\* the loop of getFirstOccurrenceOnOrAfter: while (isBefore(current, start))
FirstOccurrenceBody(frequency, originalDay, current) ==
    CASE frequency = "weekly"    -> addWeeks(current, 1)
      [] frequency = "biweekly"  -> addWeeks(current, 2)
      [] frequency = "monthly"   ->
             OnOriginalDay(addMonths(current, 1), originalDay)
      [] frequency = "quarterly" ->
             OnOriginalDay(addMonths(current, 3), originalDay)
      [] frequency = "yearly"    ->
             OnOriginalDay(addYears(current, 1), originalDay)

RECURSIVE FirstOccurrenceLoop(_, _, _, _, _)
FirstOccurrenceLoop(frequency, originalDay, start, s, n) ==
    IF n <= 1 THEN FirstOccurrenceBody(frequency, originalDay, s)
    ELSE LET q == (n + 3) \div 4
             a == FirstOccurrenceLoop(frequency, originalDay, start, s, q)
             b == FirstOccurrenceLoop(frequency, originalDay, start, a, q)
             c == FirstOccurrenceLoop(frequency, originalDay, start, b, q)
         IN  IF a >= start THEN a
             ELSE IF b >= start THEN b
             ELSE IF c >= start THEN c
             ELSE FirstOccurrenceLoop(frequency, originalDay, start, c, n - 3 * q)

\* mutant: the anchor itself, wherever the range starts
getFirstOccurrenceAtAnchor(expense, startDate) ==
    startOfDay(parseISO(expense.nextDueDate))

getFirstOccurrenceOnOrAfter(expense, startDate) ==
    LET anchorDate  == startOfDay(parseISO(expense.nextDueDate))
        start       == startOfDay(startDate)
        originalDay == getDate(anchorDate)
    IN  IF ~isBefore(anchorDate, start) THEN anchorDate
        ELSE FirstOccurrenceLoop(expense.frequency, originalDay, start,
                                 anchorDate, MaxIter)

\* the loop of generateExpenseOccurrences for one expense:
\* while (!isAfter(currentDate, end)) { push; currentDate = next }
OccurrenceBody(expense, originalDay, s) ==
    [currentDate |-> getNextOccurrence(s.currentDate, expense.frequency, originalDay),
     occurrences |-> Append(s.occurrences,
                            [expenseId |-> expense.id,
                             name      |-> expense.name,
                             amount    |-> expense.amount,
                             date      |-> s.currentDate])]

RECURSIVE OccurrenceLoop(_, _, _, _, _)
OccurrenceLoop(expense, originalDay, end, s, n) ==
    IF n <= 1 THEN OccurrenceBody(expense, originalDay, s)
    ELSE LET q == (n + 3) \div 4
             a == OccurrenceLoop(expense, originalDay, end, s, q)
             b == OccurrenceLoop(expense, originalDay, end, a, q)
             c == OccurrenceLoop(expense, originalDay, end, b, q)
         IN  IF a.currentDate > end THEN a
             ELSE IF b.currentDate > end THEN b
             ELSE IF c.currentDate > end THEN c
             ELSE OccurrenceLoop(expense, originalDay, end, c, n - 3 * q)

\* String.prototype.localeCompare on the expense names in use
NameOrder == <<"Car", "Gym", "Loan", "Rent">>

localeCompare(a, b) ==
    (CHOOSE i \in 1 .. Len(NameOrder) : NameOrder[i] = a)
  - (CHOOSE i \in 1 .. Len(NameOrder) : NameOrder[i] = b)

\* the comparator of the final sort: by date, then by name
CompareOccurrences(a, b) ==
    LET dateCompare == a.date - b.date
    IN  IF dateCompare # 0 THEN dateCompare ELSE localeCompare(a.name, b.name)

\* occurrences.sort(comparator): a stable sort that puts a before b when
\* the comparator is negative
SortOccurrences(occ) ==
    SortSeq(occ, LAMBDA a, b : CompareOccurrences(a, b) < 0)

\* what one expense pushes, from its first occurrence currentDate in the range
OccurrencesOfExpense(expense, currentDate, originalDay, end) ==
    IF isAfter(currentDate, end) THEN <<>>
    ELSE OccurrenceLoop(expense, originalDay, end,
                        [currentDate |-> currentDate, occurrences |-> <<>>],
                        MaxIter).occurrences

\* for (const expense of expenses) { ... }: what the first k expenses push
RECURSIVE OccurrencesOfExpenses(_, _, _, _)
OccurrencesOfExpenses(expenses, k, start, end) ==
    IF k = 0 THEN <<>>
    ELSE LET expense == expenses[k]
             pushed  == OccurrencesOfExpenses(expenses, k - 1, start, end)
         IN  IF expense.nextDueDate = Null THEN pushed
             ELSE pushed \o
                  OccurrencesOfExpense(expense,
                      getFirstOccurrenceOnOrAfter(expense, start),
                      getDate(parseISO(expense.nextDueDate)), end)

generateExpenseOccurrences(expenses, rangeStart, rangeEnd) ==
    SortOccurrences(OccurrencesOfExpenses(expenses, Len(expenses),
                                          startOfDay(rangeStart),
                                          startOfDay(rangeEnd)))

\* a window that leaves out its first day
getExpensesAfterStart(occurrences, periodStart, periodEnd) ==
    LET start == startOfDay(periodStart)
        end   == startOfDay(periodEnd)
    IN  SelectSeq(occurrences, LAMBDA occ : /\ isAfter(startOfDay(occ.date), start)
                                            /\ ~isAfter(startOfDay(occ.date), end))

\* occurrences.filter(occ => !isBefore(occDate, start) && !isAfter(occDate, end))
getExpensesBetweenDates(occurrences, periodStart, periodEnd) ==
    LET start == startOfDay(periodStart)
        end   == startOfDay(periodEnd)
    IN  SelectSeq(occurrences,
                  LAMBDA occ : ~isBefore(startOfDay(occ.date), start)
                               /\ ~isAfter(startOfDay(occ.date), end))

\* reduce((sum, e) => sum + e.amount, 0)
RECURSIVE SumAmounts(_)
SumAmounts(seq) ==
    IF Len(seq) = 0 THEN 0
    ELSE IF Len(seq) = 1 THEN seq[1].amount
    ELSE LET h == Len(seq) \div 2
         IN  SumAmounts(SubSeq(seq, 1, h)) + SumAmounts(SubSeq(seq, h + 1, Len(seq)))

(***************************************************************************)
(* generateProjection                                                      *)
(***************************************************************************)
\* FREQ_TO_MONTHLY of the pay frequencies, as fractions <<numerator, denominator>>
FREQ_TO_MONTHLY ==
    [weekly |-> <<52, 12>>, biweekly |-> <<26, 12>>,
     semimonthly |-> <<2, 1>>, monthly |-> <<1, 1>>]

\* Math.ceil(periodsPerMonth * 3)
ExtraPeriods(frequency) ==
    LET f == FREQ_TO_MONTHLY[frequency]
    IN  (f[1] * 3 + f[2] - 1) \div f[2]

maxPeriods == 260

\* adHocTransactions.filter(t => t.periodNumber === periodNumber)
AdHocsOfPeriod(cfg, periodNumber) ==
    SelectSeq(cfg.adHocTransactions, LAMBDA t : t.periodNumber = periodNumber)

\* filter(t => t.isIncome).reduce((sum, t) => sum + t.amount, 0)
AdHocIncomeOf(adHocs) == SumAmounts(SelectSeq(adHocs, LAMBDA t : t.isIncome))

\* filter(t => !t.isIncome).reduce((sum, t) => sum + t.amount, 0)
AdHocExpenseOf(adHocs) == SumAmounts(SelectSeq(adHocs, LAMBDA t : ~t.isIncome))

\* a baseline that ignores the override
EffectiveBaselineNoOverride(cfg, baselineOverride) == cfg.baselineSpendPerPeriod

\* baselineOverride ?? config.baselineSpendPerPeriod
EffectiveBaseline(cfg, baselineOverride) ==
    IF baselineOverride # Null THEN baselineOverride ELSE cfg.baselineSpendPerPeriod

\* a period 0 that always starts today
Period0StartToday(cfg, now) == now

\* budgetStartDate > currentBalanceAsOf > today
Period0Start(cfg, now) ==
    IF cfg.budgetStartDate # Null THEN parseISO(cfg.budgetStartDate)
    ELSE IF cfg.currentBalanceAsOf # Null THEN parseISO(cfg.currentBalanceAsOf)
    ELSE now

\* every generated pay date, passed ones included
FuturePayDatesUnfiltered(cfg, now) == generatePayDates(cfg, maxPeriods)

\* allPayDates.filter(date => !isBefore(startOfDay(date), today))
FuturePayDates(cfg, now) ==
    SelectSeq(generatePayDates(cfg, maxPeriods),
              LAMBDA date : ~isBefore(startOfDay(date), now))

\* the period-0 block: the entry pushed when daysUntilNextPay > 0
Period0Entry(cfg, effectiveBaseline, now, period0Start, nextPayDate, occurrences) ==
    LET partialPeriodExpenses == getExpensesBetweenDates(occurrences, period0Start,
                                                         addDays(nextPayDate, -1))
        partialExpenseTotal   == SumAmounts(partialPeriodExpenses)
        period0AdHocs         == AdHocsOfPeriod(cfg, 0)
        period0AdHocIncome    == AdHocIncomeOf(period0AdHocs)
        period0AdHocExpense   == AdHocExpenseOf(period0AdHocs)
        afterIncome   == cfg.currentBalance + period0AdHocIncome
        afterExpenses == afterIncome - partialExpenseTotal - period0AdHocExpense
        afterBaseline == afterExpenses - effectiveBaseline
    IN  [date                 |-> now,
         periodNumber         |-> 0,
         income               |-> 0,
         expenses             |-> partialExpenseTotal,
         expenseDetails       |-> partialPeriodExpenses,
         adHocIncome          |-> period0AdHocIncome,
         adHocExpenses        |-> period0AdHocExpense,
         adHocDetails         |-> period0AdHocs,
         baselineSpend        |-> effectiveBaseline,
         balanceAfterIncome   |-> afterIncome,
         balanceAfterExpenses |-> afterExpenses,
         balanceAfterBaseline |-> afterBaseline]

\* one iteration of for (let i = 0; i < futurePayDates.length; i++)
\* s: the locals of generateProjection the loop reads and writes
PeriodBody(cfg, effectiveBaseline, s) ==
    LET i            == s.i
        periodDate   == s.futurePayDates[i + 1]
        periodNumber == i + 1
        periodStart  == periodDate
        periodEnd    == IF i < Len(s.futurePayDates) - 1
                        THEN addDays(s.futurePayDates[i + 2], -1)
                        ELSE addMonths(periodDate, 1)
        periodExpenses        == getExpensesBetweenDates(s.allExpenseOccurrences,
                                                         periodStart, periodEnd)
        recurringExpenseTotal == SumAmounts(periodExpenses)
        periodAdHocs          == AdHocsOfPeriod(cfg, periodNumber)
        adHocIncomeTotal      == AdHocIncomeOf(periodAdHocs)
        adHocExpenseTotal     == AdHocExpenseOf(periodAdHocs)
        afterIncome   == s.balanceAfterBaseline + cfg.paycheckAmount + adHocIncomeTotal
        totalExpenses == recurringExpenseTotal + adHocExpenseTotal
        afterExpenses == afterIncome - totalExpenses
        afterBaseline == afterExpenses - effectiveBaseline
        goalReached   == IF s.goalReachedPeriod = Null /\ afterBaseline >= cfg.savingsGoal
                         THEN i ELSE s.goalReachedPeriod
    IN  [s EXCEPT
         !.i                    = i + 1,
         !.entries              = Append(@,
            [date                 |-> periodDate,
             periodNumber         |-> periodNumber,
             income               |-> cfg.paycheckAmount,
             expenses             |-> recurringExpenseTotal,
             expenseDetails       |-> periodExpenses,
             adHocIncome          |-> adHocIncomeTotal,
             adHocExpenses        |-> adHocExpenseTotal,
             adHocDetails         |-> periodAdHocs,
             baselineSpend        |-> effectiveBaseline,
             balanceAfterIncome   |-> afterIncome,
             balanceAfterExpenses |-> afterExpenses,
             balanceAfterBaseline |-> afterBaseline]),
         !.balanceAfterBaseline = afterBaseline,
         !.goalReachedPeriod    = goalReached,
         !.broke                = /\ goalReached # Null
                                  /\ i >= goalReached + ExtraPeriods(cfg.paycheckFrequency)]

RECURSIVE PeriodLoop(_, _, _, _)
PeriodLoop(cfg, effectiveBaseline, s, n) ==
    IF n <= 1 THEN PeriodBody(cfg, effectiveBaseline, s)
    ELSE LET q == (n + 3) \div 4
             a == PeriodLoop(cfg, effectiveBaseline, s, q)
             b == PeriodLoop(cfg, effectiveBaseline, a, q)
             c == PeriodLoop(cfg, effectiveBaseline, b, q)
         IN  IF a.broke \/ a.i >= Len(a.futurePayDates) THEN a
             ELSE IF b.broke \/ b.i >= Len(b.futurePayDates) THEN b
             ELSE IF c.broke \/ c.i >= Len(c.futurePayDates) THEN c
             ELSE PeriodLoop(cfg, effectiveBaseline, c, n - 3 * q)

\* generateProjection from the period-0 block on: the locals when it returns
ProjectionPeriods(cfg, effectiveBaseline, now, period0Start, futurePayDates, allExpenseOccurrences) ==
    LET nextPayDate      == futurePayDates[1]
        daysUntilNextPay == differenceInDays(nextPayDate, period0Start)
        period0 == Period0Entry(cfg, effectiveBaseline, now, period0Start,
                                nextPayDate, allExpenseOccurrences)
        s0 == [futurePayDates        |-> futurePayDates,
               allExpenseOccurrences |-> allExpenseOccurrences,
               i                     |-> 0,
               entries               |-> IF daysUntilNextPay > 0
                                         THEN <<period0>> ELSE <<>>,
               balanceAfterBaseline  |-> IF daysUntilNextPay > 0
                                         THEN period0.balanceAfterBaseline
                                         ELSE cfg.currentBalance,
               goalReachedPeriod     |->
                   IF daysUntilNextPay > 0
                      /\ period0.balanceAfterBaseline >= cfg.savingsGoal
                   THEN 0 ELSE Null,
               broke                 |-> FALSE]
    IN  IF s0.i < Len(s0.futurePayDates)
        THEN PeriodLoop(cfg, effectiveBaseline, s0, Len(futurePayDates))
        ELSE s0

\* generateProjection once the future pay dates are known
ProjectionOfPayDates(cfg, effectiveBaseline, now, futurePayDates) ==
    IF Len(futurePayDates) = 0
    THEN [futurePayDates |-> <<>>, allExpenseOccurrences |-> <<>>, i |-> 0,
          entries |-> <<>>, balanceAfterBaseline |-> cfg.currentBalance,
          goalReachedPeriod |-> Null, broke |-> FALSE]
    ELSE ProjectionPeriods(cfg, effectiveBaseline, now, Period0Start(cfg, now),
             futurePayDates,
             generateExpenseOccurrences(cfg.recurringExpenses,
                 Period0Start(cfg, now),
                 addMonths(futurePayDates[Len(futurePayDates)], 1)))

\* the locals of generateProjection(config, baselineOverride) when it returns,
\* run on the day `now` (today = startOfDay(new Date())); baselineOverride =
\* Null: not supplied
ProjectionLocals(cfg, baselineOverride, now) ==
    ProjectionOfPayDates(cfg, EffectiveBaseline(cfg, baselineOverride), now,
                         FuturePayDates(cfg, now))

\* the ProjectionEntry[] generateProjection returns
generateProjection(cfg, baselineOverride, now) ==
    ProjectionLocals(cfg, baselineOverride, now).entries

(***************************************************************************)
(* calculateGoalDates                                                      *)
(***************************************************************************)
\* an iteration that does not skip period 0
GoalBodyWithPeriod0(cfg, proj, s) ==
    LET entry == proj[s.k + 1]
    IN  [k |-> s.k + 1,
         dateBeforeExpenses |->
             IF s.dateBeforeExpenses = Null
                /\ entry.balanceAfterIncome >= cfg.savingsGoal
             THEN entry.date ELSE s.dateBeforeExpenses,
         dateAfterExpenses |->
             IF s.dateAfterExpenses = Null
                /\ entry.balanceAfterExpenses >= cfg.savingsGoal
             THEN entry.date ELSE s.dateAfterExpenses,
         dateAfterBaseline |->
             IF s.dateAfterBaseline = Null
                /\ entry.balanceAfterBaseline >= cfg.savingsGoal
             THEN entry.date ELSE s.dateAfterBaseline,
         periodsToGoal |->
             IF s.dateAfterBaseline = Null
                /\ entry.balanceAfterBaseline >= cfg.savingsGoal
             THEN entry.periodNumber ELSE s.periodsToGoal]

\* one iteration of for (const entry of projection); s.k: entries visited
GoalBody(cfg, proj, s) ==
    LET entry == proj[s.k + 1]
    IN  IF entry.periodNumber = 0 THEN [s EXCEPT !.k = @ + 1]
        ELSE [k |-> s.k + 1,
              dateBeforeExpenses |->
                  IF s.dateBeforeExpenses = Null
                     /\ entry.balanceAfterIncome >= cfg.savingsGoal
                  THEN entry.date ELSE s.dateBeforeExpenses,
              dateAfterExpenses |->
                  IF s.dateAfterExpenses = Null
                     /\ entry.balanceAfterExpenses >= cfg.savingsGoal
                  THEN entry.date ELSE s.dateAfterExpenses,
              dateAfterBaseline |->
                  IF s.dateAfterBaseline = Null
                     /\ entry.balanceAfterBaseline >= cfg.savingsGoal
                  THEN entry.date ELSE s.dateAfterBaseline,
              periodsToGoal |->
                  IF s.dateAfterBaseline = Null
                     /\ entry.balanceAfterBaseline >= cfg.savingsGoal
                  THEN entry.periodNumber ELSE s.periodsToGoal]

RECURSIVE GoalLoop(_, _, _, _)
GoalLoop(cfg, proj, s, n) ==
    IF n <= 1 THEN GoalBody(cfg, proj, s)
    ELSE LET q == (n + 3) \div 4
             a == GoalLoop(cfg, proj, s, q)
             b == GoalLoop(cfg, proj, a, q)
             c == GoalLoop(cfg, proj, b, q)
         IN  IF a.k >= Len(proj) THEN a
             ELSE IF b.k >= Len(proj) THEN b
             ELSE IF c.k >= Len(proj) THEN c
             ELSE GoalLoop(cfg, proj, c, n - 3 * q)

\* the GoalProjection without daysToGoal (which depends on the time of day)
calculateGoalDates(cfg, proj) ==
    IF cfg.savingsGoal <= 0
    THEN [dateBeforeExpenses |-> Null, dateAfterExpenses |-> Null,
          dateAfterBaseline |-> Null, periodsToGoal |-> 0]
    ELSE LET s0 == [k |-> 0, dateBeforeExpenses |-> Null,
                    dateAfterExpenses |-> Null, dateAfterBaseline |-> Null,
                    periodsToGoal |-> 0]
             s  == IF Len(proj) = 0 THEN s0
                   ELSE GoalLoop(cfg, proj, s0, Len(proj))
         IN  [dateBeforeExpenses |-> s.dateBeforeExpenses,
              dateAfterExpenses  |-> s.dateAfterExpenses,
              dateAfterBaseline  |-> s.dateAfterBaseline,
              periodsToGoal      |-> s.periodsToGoal]

(***************************************************************************)
(* advancePassedDates                                                      *)
(***************************************************************************)
\* date.toISOString().split('T')[0] of a local midnight: the UTC calendar
\* date of that instant, which is the day before where local time is ahead
\* of UTC
toISODate(date, aheadOfUTC) == IF aheadOfUTC THEN addDays(date, -1) ELSE date

\* while (isBefore(current, todayStart)) current = addWeeks(current, interval)
RECURSIVE PayAdvanceLoop(_, _, _, _)
PayAdvanceLoop(interval, todayStart, current, n) ==
    IF n <= 1 THEN addWeeks(current, interval)
    ELSE LET q == (n + 3) \div 4
             a == PayAdvanceLoop(interval, todayStart, current, q)
             b == PayAdvanceLoop(interval, todayStart, a, q)
             c == PayAdvanceLoop(interval, todayStart, b, q)
         IN  IF a >= todayStart THEN a
             ELSE IF b >= todayStart THEN b
             ELSE IF c >= todayStart THEN c
             ELSE PayAdvanceLoop(interval, todayStart, c, n - 3 * q)

\* outerLoop: for (let i = 0; i < 3; i++): the first semimonthly pay day on
\* or after today within three months, Null if there is none
RECURSIVE SemiMonthlyAdvance(_, _, _, _, _)
SemiMonthlyAdvance(cfg, todayStart, year, month, i) ==
    IF i >= 3 THEN Null
    ELSE LET payDays == getSemiMonthlyPayDaysForMonth(year, month,
                            cfg.semiMonthlyConfig, cfg.weekendHandling)
             found   == SelectSeq(payDays, LAMBDA payDay : ~isBefore(payDay, todayStart))
         IN  IF Len(found) > 0 THEN found[1]
             ELSE SemiMonthlyAdvance(cfg, todayStart,
                                     IF month + 1 > 11 THEN year + 1 ELSE year,
                                     IF month + 1 > 11 THEN 0 ELSE month + 1, i + 1)

\* for (let i = 0; i < 3; i++): the first monthly pay day on or after today
RECURSIVE MonthlyAdvance(_, _, _, _, _)
MonthlyAdvance(cfg, todayStart, year, month, i) ==
    IF i >= 3 THEN Null
    ELSE LET payDay == getMonthlyPayDayForMonth(year, month, cfg.monthlyConfig,
                                                cfg.weekendHandling)
         IN  IF ~isBefore(payDay, todayStart) THEN payDay
             ELSE MonthlyAdvance(cfg, todayStart,
                                 IF month + 1 > 11 THEN year + 1 ELSE year,
                                 IF month + 1 > 11 THEN 0 ELSE month + 1, i + 1)

\* step 1: the pay date found for a nextPayDate that has passed (Null: the
\* three-month search found none)
AdvancedPayDate(cfg, todayStart) ==
    LET nextPay == parseISO(cfg.nextPayDate)
    IN  IF cfg.paycheckFrequency \in {"weekly", "biweekly"}
        THEN PayAdvanceLoop(IF cfg.paycheckFrequency = "weekly" THEN 1 ELSE 2,
                            todayStart, nextPay, MaxIter)
        ELSE IF cfg.paycheckFrequency = "semimonthly"
        THEN SemiMonthlyAdvance(cfg, todayStart, getFullYear(todayStart),
                                getMonth(todayStart), 0)
        ELSE MonthlyAdvance(cfg, todayStart, getFullYear(todayStart),
                            getMonth(todayStart), 0)

\* an expense due up to the balance date counts as accounted for
ExpenseIsAdvancedThrough(cfg, expense, todayStart) ==
    LET dueDate == parseISO(expense.nextDueDate)
    IN  /\ isBefore(dueDate, todayStart)
        /\ \/ cfg.currentBalanceAsOf = Null
           \/ ~isAfter(dueDate, startOfDay(parseISO(cfg.currentBalanceAsOf)))

\* step 2: is the expense advanced (due before today, and no balance date
\* or due before the balance date)
ExpenseIsAdvanced(cfg, expense, todayStart) ==
    LET dueDate == parseISO(expense.nextDueDate)
        isInPast == isBefore(dueDate, todayStart)
        alreadyAccountedFor ==
            \/ cfg.currentBalanceAsOf = Null
            \/ isBefore(dueDate, startOfDay(parseISO(cfg.currentBalanceAsOf)))
    IN  isInPast /\ alreadyAccountedFor

\* the callback of config.recurringExpenses.map
AdvanceExpense(cfg, expense, todayStart, aheadOfUTC) ==
    IF ExpenseIsAdvanced(cfg, expense, todayStart)
    THEN [expense EXCEPT !.nextDueDate =
              toISODate(getFirstOccurrenceOnOrAfter(expense, todayStart), aheadOfUTC)]
    ELSE expense

\* advancePassedDates(config, today) where local time is ahead of UTC or
\* not; result: [changed, config], changed = FALSE standing for null
advancePassedDates(cfg, now, aheadOfUTC) ==
    LET todayStart == startOfDay(now)
        payPassed  == isBefore(parseISO(cfg.nextPayDate), todayStart)
        newPay     == IF payPassed THEN AdvancedPayDate(cfg, todayStart) ELSE Null
        updatedExpenses ==
            [k \in 1 .. Len(cfg.recurringExpenses) |->
                AdvanceExpense(cfg, cfg.recurringExpenses[k], todayStart, aheadOfUTC)]
        changed    ==
            \/ newPay # Null
            \/ \E k \in 1 .. Len(cfg.recurringExpenses) :
                  ExpenseIsAdvanced(cfg, cfg.recurringExpenses[k], todayStart)
    IN  [changed |-> changed,
         config  |-> IF changed
                     THEN [cfg EXCEPT
                             !.nextPayDate = IF newPay # Null
                                             THEN toISODate(newPay, aheadOfUTC) ELSE @,
                             !.recurringExpenses = updatedExpenses]
                     ELSE cfg]

(***************************************************************************)
(* Spend tracking: calculateAverageBaseline, detectPeriodTransition,       *)
(* calculateTrueSpend, handlePeriodTransition (calculations.ts) and the    *)
(* handlers of App.tsx that call them.  In the specifications that run     *)
(* them money is counted in thousandths of a currency unit, so that        *)
(* rounding to two decimals is a real operation: 1523455 is 1523.455 and   *)
(* rounds to 1523460.                                                      *)
(***************************************************************************)
\* Math.round(x * 100) / 100 of the fraction num / den, in thousandths
\* (Math.round rounds halves up)
RoundToCents(num, den) == 10 * ((2 * num + 10 * den) \div (20 * den))

\* Math.round(x * 100) / 100
Round2(x) == RoundToCents(x, 1)

\* array.slice(-n): the last n elements, and the whole array when n is 0
SliceLast(seq, n) ==
    IF n = 0 \/ n >= Len(seq) THEN seq ELSE SubSeq(seq, Len(seq) - n + 1, Len(seq))

\* the spend as recorded
NoFloor(x) == x

\* Math.max(0, p.trueSpend)
FloorAtZero(x) == IF x > 0 THEN x ELSE 0

\* reduce((sum, s) => sum + s, 0)
RECURSIVE SumSpends(_)
SumSpends(seq) == IF Len(seq) = 0 THEN 0 ELSE seq[1] + SumSpends(Tail(seq))

\* calculateAverageBaseline(periodSpendHistory, periodsToUse); isNull: it
\* returned null
calculateAverageBaseline(periodSpendHistory, periodsToUse) ==
    IF Len(periodSpendHistory) = 0
    THEN [isNull |-> TRUE, average |-> 0, count |-> 0]
    ELSE LET recentPeriods == SliceLast(periodSpendHistory, periodsToUse)
             validSpends   == [k \in 1 .. Len(recentPeriods) |->
                                  FloorAtZero(recentPeriods[k].trueSpend)]
         IN  [isNull  |-> FALSE,
              average |-> RoundToCents(SumSpends(validSpends), Len(validSpends)),
              count   |-> Len(validSpends)]

\* detectPeriodTransition(config, today)
detectPeriodTransition(cfg, now) ==
    LET todayStart == startOfDay(now)
        nextPay    == parseISO(cfg.nextPayDate)
    IN  IF isBefore(nextPay, todayStart)
        THEN [transitioned |-> TRUE, passedPayDate |-> nextPay]
        ELSE [transitioned |-> FALSE, passedPayDate |-> Null]

\* calculateTrueSpend
calculateTrueSpend(startingBalance, income, expenses, adHocIncome, adHocExpenses, newStartingBalance) ==
    LET expectedEnding == startingBalance + income - expenses + adHocIncome
                              - adHocExpenses
        trueSpend      == expectedEnding - newStartingBalance
    IN  [trueSpend |-> Round2(trueSpend), expectedEnding |-> Round2(expectedEnding)]

\* periodStartSnapshot of a config that has none (undefined)
NoSnapshot == [periodStartDate |-> Null, balance |-> 0]

\* config.periodStartSnapshot is set
HasSnapshot(cfg) == cfg.periodStartSnapshot.periodStartDate # Null

\* new Date().toISOString().split('T')[0]: the UTC date of the present
\* instant, utcShift days from the local date (-1 or 0 east of Greenwich,
\* 0 or 1 west of it)
utcDateOfNow(now, utcShift) == addDays(now, utcShift)

\* projection.find(p => p.periodNumber === 0) ?? projection[0], of a
\* projection that is not empty
CurrentPeriod(proj) ==
    IF \E j \in 1 .. Len(proj) : proj[j].periodNumber = 0
    THEN proj[CHOOSE j \in 1 .. Len(proj) :
                 /\ proj[j].periodNumber = 0
                 /\ \A i \in 1 .. j - 1 : proj[i].periodNumber # 0]
    ELSE proj[1]

\* the entry handlePeriodTransition records for the period that ended
TransitionEntry(passedPayDate, startingBalance, spend, newBalance, aheadOfUTC) ==
    [periodEndDate   |-> toISODate(passedPayDate, aheadOfUTC),
     startingBalance |-> startingBalance,
     expectedEnding  |-> spend.expectedEnding,
     actualEnding    |-> newBalance,
     trueSpend       |-> 0]

\* the pruning of history entries beyond the retention period; today is the
\* present instant, later than local midnight, so that an entry dated
\* retentionDays ago is before the cutoff
PruneHistory(cfg, periodSpendHistory, now) ==
    LET retentionDays == cfg.transitionHistoryRetentionDays
        cutoffDate    == addDays(now, -retentionDays)
    IN  SelectSeq(periodSpendHistory,
                  LAMBDA entry : isAfter(parseISO(entry.periodEndDate), cutoffDate))

\* the branch of handlePeriodTransition that sets the balance to the
\* projected one
AutoTransition(cfg, now, todayStr, passedPayDate, currentPeriod, aheadOfUTC) ==
    LET newBalance == currentPeriod.balanceAfterBaseline
        spend == calculateTrueSpend(cfg.periodStartSnapshot.balance,
                     currentPeriod.income, currentPeriod.expenses,
                     currentPeriod.adHocIncome, currentPeriod.adHocExpenses,
                     newBalance)
        pushed == IF HasSnapshot(cfg)
                  THEN Append(cfg.periodSpendHistory,
                              TransitionEntry(passedPayDate,
                                  cfg.periodStartSnapshot.balance, spend,
                                  newBalance, aheadOfUTC))
                  ELSE cfg.periodSpendHistory
    IN  [kind         |-> "transition",
         transitioned |-> TRUE,
         config       |-> [cfg EXCEPT
                             !.currentBalance      = newBalance,
                             !.currentBalanceAsOf  = todayStr,
                             !.periodStartSnapshot =
                                 [periodStartDate |-> todayStr,
                                  balance         |-> newBalance],
                             !.periodSpendHistory  = PruneHistory(cfg, pushed, now)],
         newBalance   |-> newBalance,
         trueSpend    |-> IF HasSnapshot(cfg) THEN spend.trueSpend ELSE 0]

\* a branch that also moves the balance date to today
SnapshotAndDate(cfg, todayStr) ==
    [kind         |-> "transition",
     transitioned |-> TRUE,
     config       |-> [cfg EXCEPT
                         !.currentBalanceAsOf  = todayStr,
                         !.periodStartSnapshot =
                             [periodStartDate |-> todayStr,
                              balance         |-> cfg.currentBalance]],
     newBalance   |-> cfg.currentBalance,
     trueSpend    |-> 0]

\* the branch of handlePeriodTransition taken when the user has entered a
\* balance since the pay date passed: only the snapshot is set
SnapshotOnly(cfg, todayStr) ==
    [kind         |-> "transition",
     transitioned |-> TRUE,
     config       |-> [cfg EXCEPT
                         !.periodStartSnapshot =
                             [periodStartDate |-> cfg.currentBalanceAsOf,
                              balance         |-> cfg.currentBalance]],
     newBalance   |-> cfg.currentBalance,
     trueSpend    |-> 0]

\* handlePeriodTransition(config, today, projection); kind "null": it
\* returned null
handlePeriodTransition(cfg, now, utcShift, aheadOfUTC, proj) ==
    LET detected      == detectPeriodTransition(cfg, now)
        passedPayDate == detected.passedPayDate
        todayStr      == utcDateOfNow(now, utcShift)
        userAlreadyUpdated ==
            /\ cfg.currentBalanceAsOf # Null
            /\ ~isBefore(parseISO(cfg.currentBalanceAsOf), passedPayDate)
    IN  IF ~detected.transitioned
        THEN [kind |-> "null", transitioned |-> FALSE, config |-> cfg,
              newBalance |-> 0, trueSpend |-> 0]
        ELSE IF userAlreadyUpdated
        THEN SnapshotOnly(cfg, todayStr)
        ELSE IF Len(proj) = 0
        THEN [kind |-> "null", transitioned |-> FALSE, config |-> cfg,
              newBalance |-> 0, trueSpend |-> 0]
        ELSE AutoTransition(cfg, now, todayStr, passedPayDate, CurrentPeriod(proj),
                            aheadOfUTC)

\* the projection memo of App.tsx: with the calculated baseline when it is
\* enabled and enough periods are recorded
MemoProjection(cfg, now) ==
    LET calcResult == calculateAverageBaseline(cfg.periodSpendHistory,
                                               cfg.periodsForBaselineCalc)
    IN  IF /\ cfg.useCalculatedBaseline
           /\ Len(cfg.periodSpendHistory) >= cfg.periodsForBaselineCalc
           /\ ~calcResult.isNull
        THEN generateProjection(cfg, calcResult.average, now)
        ELSE generateProjection(cfg, Null, now)

\* the setConfig callback of handleBalanceUpdate(newBalance) (App.tsx), proj
\* being the memoised projection
handleBalanceUpdate(prev, proj, newBalance, todayStr) ==
    LET isFirstUpdate == ~HasSnapshot(prev)
        snapshot      == prev.periodStartSnapshot
        currentPeriod == CurrentPeriod(proj)
        spend == calculateTrueSpend(snapshot.balance, currentPeriod.income,
                     currentPeriod.expenses, currentPeriod.adHocIncome,
                     currentPeriod.adHocExpenses, newBalance)
        historyEntry == [periodEndDate   |-> snapshot.periodStartDate,
                         startingBalance |-> snapshot.balance,
                         expectedEnding  |-> spend.expectedEnding,
                         actualEnding    |-> newBalance,
                         trueSpend       |-> spend.trueSpend]
    IN  IF HasSnapshot(prev) /\ snapshot.periodStartDate # todayStr /\ Len(proj) > 0
        THEN [prev EXCEPT
                !.currentBalance      = newBalance,
                !.currentBalanceAsOf  = todayStr,
                !.periodSpendHistory  = Append(@, historyEntry),
                !.periodStartSnapshot = [periodStartDate |-> todayStr,
                                         balance         |-> newBalance]]
        ELSE [prev EXCEPT
                !.currentBalance      = newBalance,
                !.currentBalanceAsOf  = todayStr,
                !.periodStartSnapshot =
                    IF isFirstUpdate
                    THEN [periodStartDate |-> todayStr, balance |-> newBalance]
                    ELSE @]

(***************************************************************************)
(* Historical periods: migration (utils/migration.ts), the confirmation    *)
(* modal (components/PeriodConfirmationModal.tsx) and the handlers of the  *)
(* App that keeps config.periods.  In that App a snapshot holds the        *)
(* balance before the paycheck and whether the paycheck was received.      *)
(***************************************************************************)
\* Math.abs
Abs(x) == IF x < 0 THEN -x ELSE x

\* the callback of periodSpendHistory.map in migrateToHistoricalPeriods;
\* confirmedAt is the day of new Date()
MigratedPeriod(cfg, index, confirmedAt) ==
    LET entry    == cfg.periodSpendHistory[index + 1]
        variance == entry.expectedEnding - entry.actualEnding
    IN  [id                     |-> index,
         periodNumber           |-> index,
         startDate              |->
             IF index = 0
             THEN (IF cfg.currentBalanceAsOf # Null THEN cfg.currentBalanceAsOf
                   ELSE entry.periodEndDate)
             ELSE addDays(cfg.periodSpendHistory[index].periodEndDate, 1),
         endDate                |-> entry.periodEndDate,
         startingBalance        |-> entry.startingBalance,
         endingBalance          |-> entry.actualEnding,
         projectedEndingBalance |-> entry.expectedEnding,
         income                 |-> 0,
         recurringExpenses      |-> 0,
         adHocIncome            |-> 0,
         adHocExpenses          |-> 0,
         baselineSpend          |-> entry.trueSpend,
         variance               |-> variance,
         varianceExplanations   |->
             IF variance < 0
             THEN <<[reason |-> "baseline_miss", amount |-> Abs(variance),
                     affectsBaseline |-> TRUE]>>
             ELSE <<>>,
         status                 |-> "completed",
         confirmedAt            |-> confirmedAt]

\* migrateToHistoricalPeriods(config)
migrateToHistoricalPeriods(cfg, confirmedAt) ==
    IF Len(cfg.periods) > 0 THEN cfg
    ELSE IF Len(cfg.periodSpendHistory) = 0
    THEN [cfg EXCEPT !.periods = <<>>, !.budgetStartDate = cfg.currentBalanceAsOf]
    ELSE LET periods == [k \in 1 .. Len(cfg.periodSpendHistory) |->
                            MigratedPeriod(cfg, k - 1, confirmedAt)]
         IN  [cfg EXCEPT !.periods = periods,
                         !.budgetStartDate = periods[1].startDate]

\* a check that looks at the legacy history only
HasLegacyHistory(cfg) ==
    Len(cfg.periodSpendHistory) > 0

\* needsMigration(config)
needsMigration(cfg) ==
    LET hasOldHistory == Len(cfg.periodSpendHistory) > 0
        hasNewHistory == Len(cfg.periods) > 0
    IN  hasOldHistory /\ ~hasNewHistory

\* what loadBudget() returns for the stored config
loadBudget(stored, now) ==
    IF needsMigration(stored) THEN migrateToHistoricalPeriods(stored, now) ELSE stored

\* reduce((sum, e) => sum + amount, 0) over the explanations with the reason
RECURSIVE ExplainedTotal(_, _)
ExplainedTotal(explanations, reasons) ==
    IF Len(explanations) = 0 THEN 0
    ELSE (IF explanations[1].reason \in reasons THEN explanations[1].amount ELSE 0)
         + ExplainedTotal(Tail(explanations), reasons)

VarianceReasons == {"adhoc_expense", "planned_cost_higher", "baseline_miss"}

\* handleConfirm of the confirmation modal: the explanations handed to
\* onConfirm for the entries the user made (the unexplained variance above
\* one cent becomes a baseline miss)
handleConfirm(projectedBalance, actualNum, varianceEntries) ==
    LET variance       == projectedBalance - actualNum
        entered        == SelectSeq(varianceEntries, LAMBDA e : e.amount > 0)
        explanations   == [k \in 1 .. Len(entered) |->
                              [reason          |-> entered[k].reason,
                               amount          |-> entered[k].amount,
                               affectsBaseline |-> entered[k].reason = "baseline_miss"]]
        totalExplained == ExplainedTotal(varianceEntries, VarianceReasons)
        unexplainedVariance == variance - totalExplained
    IN  IF unexplainedVariance > 10
        THEN Append(explanations, [reason |-> "baseline_miss",
                                   amount |-> unexplainedVariance,
                                   affectsBaseline |-> TRUE])
        ELSE explanations

\* a findIndex that answers with the first entry whatever its status
FirstIndex(periods) ==
    IF Len(periods) > 0 THEN 1 ELSE Null

\* periods.findIndex(p => p.status === 'pending-confirmation'), 1-based;
\* Null: none
PendingIndex(periods) ==
    IF \E k \in 1 .. Len(periods) : periods[k].status = "pending-confirmation"
    THEN CHOOSE k \in 1 .. Len(periods) :
            /\ periods[k].status = "pending-confirmation"
            /\ \A i \in 1 .. k - 1 : periods[i].status # "pending-confirmation"
    ELSE Null

\* the setConfig callback of handlePeriodConfirm(actualBalance, explanations)
handlePeriodConfirm(prev, actualBalance, explanations, confirmedAt, todayStr) ==
    LET pendingIndex == PendingIndex(prev.periods)
        periods ==
            IF pendingIndex # Null
            THEN [prev.periods EXCEPT ![pendingIndex] =
                     [@ EXCEPT !.endingBalance = actualBalance,
                               !.variance =
                                   prev.periods[pendingIndex].projectedEndingBalance
                                       - actualBalance,
                               !.varianceExplanations = explanations,
                               !.status = "completed",
                               !.confirmedAt = confirmedAt]]
            ELSE prev.periods
    IN  [prev EXCEPT !.periods = periods,
                     !.currentBalance = actualBalance,
                     !.currentBalanceAsOf = todayStr]

\* the setConfig callback of handlePeriodDismiss()
handlePeriodDismiss(prev, confirmedAt) ==
    LET pendingIndex == PendingIndex(prev.periods)
    IN  IF pendingIndex # Null
        THEN [prev EXCEPT !.periods[pendingIndex].status = "completed",
                          !.periods[pendingIndex].confirmedAt = confirmedAt]
        ELSE prev

\* the setConfig callback of handleStartNewCycle(startDate, startingBalance)
handleStartNewCycle(prev, startDate, startingBalance) ==
    [prev EXCEPT !.budgetStartDate     = startDate,
                 !.currentBalance      = startingBalance,
                 !.currentBalanceAsOf  = startDate,
                 !.periodStartSnapshot =
                     [periodStartDate       |-> startDate,
                      balanceBeforePaycheck |-> startingBalance,
                      paycheckReceived      |-> FALSE],
                 !.periods             = prev.periods,
                 !.periodSpendHistory  = <<>>]

\* the setConfig callback of handleBalanceUpdate(newBalance) of the App that
\* keeps config.periods, proj being the memoised projection
handleBalanceUpdateOfPeriods(prev, proj, newBalance, todayStr) ==
    LET isFirstUpdate == ~HasSnapshot(prev)
        snapshot      == prev.periodStartSnapshot
        currentPeriod == CurrentPeriod(proj)
        received      == IF snapshot.paycheckReceived THEN currentPeriod.income ELSE 0
        startingBalance == snapshot.balanceBeforePaycheck + received
        spend == calculateTrueSpend(startingBalance, received, currentPeriod.expenses,
                     currentPeriod.adHocIncome, currentPeriod.adHocExpenses, newBalance)
        historyEntry == [periodEndDate   |-> snapshot.periodStartDate,
                         startingBalance |-> startingBalance,
                         expectedEnding  |-> spend.expectedEnding,
                         actualEnding    |-> newBalance,
                         trueSpend       |-> spend.trueSpend]
        fresh == [periodStartDate       |-> todayStr,
                  balanceBeforePaycheck |-> newBalance,
                  paycheckReceived      |-> FALSE]
    IN  IF HasSnapshot(prev) /\ snapshot.periodStartDate # todayStr /\ Len(proj) > 0
        THEN [prev EXCEPT
                !.currentBalance      = newBalance,
                !.currentBalanceAsOf  = todayStr,
                !.periodSpendHistory  = Append(@, historyEntry),
                !.periodStartSnapshot = fresh]
        ELSE [prev EXCEPT
                !.currentBalance      = newBalance,
                !.currentBalanceAsOf  = todayStr,
                !.periodStartSnapshot = IF isFirstUpdate THEN fresh ELSE @]

\* getPendingConfirmationPeriod(config, today): whether a period awaits
\* confirmation, and the balance projected for its end
getPendingConfirmationPeriod(cfg) ==
    LET pendingIndex == PendingIndex(cfg.periods)
    IN  IF pendingIndex = Null
        THEN [needsConfirmation |-> FALSE, periodEndDate |-> Null, projectedBalance |-> 0]
        ELSE [needsConfirmation |-> TRUE,
              periodEndDate     |-> cfg.periods[pendingIndex].endDate,
              projectedBalance  |-> cfg.periods[pendingIndex].projectedEndingBalance]

\* the period recorded when a period ends: it awaits confirmation
EndedPeriod(cfg, currentPeriod, endDate) ==
    [id                     |-> Len(cfg.periods),
     periodNumber           |-> IF Len(cfg.periods) = 0 THEN 0
                                ELSE cfg.periods[Len(cfg.periods)].periodNumber + 1,
     startDate              |-> IF cfg.currentBalanceAsOf # Null
                                THEN cfg.currentBalanceAsOf ELSE endDate,
     endDate                |-> endDate,
     startingBalance        |-> cfg.currentBalance,
     endingBalance          |-> currentPeriod.balanceAfterBaseline,
     projectedEndingBalance |-> currentPeriod.balanceAfterBaseline,
     income                 |-> currentPeriod.income,
     recurringExpenses      |-> currentPeriod.expenses,
     adHocIncome            |-> currentPeriod.adHocIncome,
     adHocExpenses          |-> currentPeriod.adHocExpenses,
     baselineSpend          |-> currentPeriod.baselineSpend,
     variance               |-> 0,
     varianceExplanations   |-> <<>>,
     status                 |-> "pending-confirmation",
     confirmedAt            |-> Null]

(***************************************************************************)
(* DEFAULT_CONFIG (types.ts) and the inputs the checks draw from.          *)
(***************************************************************************)
BaseDate == NewDate(2024, 0, 1)

DEFAULT_CONFIG ==
    [currentBalance         |-> 0,
     paycheckAmount         |-> 0,
     paycheckFrequency      |-> "biweekly",
     nextPayDate            |-> BaseDate,
     weekendHandling        |-> "before",
     semiMonthlyConfig      |-> [firstPayDay |-> 1, secondPayDay |-> 15],
     monthlyConfig          |-> [payDay |-> 1],
     recurringExpenses      |-> <<>>,
     adHocTransactions      |-> <<>>,
     baselineSpendPerPeriod |-> 0,
     savingsGoal            |-> 0,
     currentBalanceAsOf     |-> Null,
     budgetStartDate        |-> Null,
     periodStartSnapshot    |-> NoSnapshot,
     periodSpendHistory     |-> <<>>,
     periodsForBaselineCalc |-> 8,
     useCalculatedBaseline  |-> FALSE,
     transitionHistoryRetentionDays |-> 7,
     periods                |-> <<>>,
     periodConfirmationGraceDays |-> 3]

PayFrequencies == {"weekly", "biweekly", "semimonthly", "monthly"}

ExpenseFrequencies == {"weekly", "biweekly", "monthly", "quarterly", "yearly"}

WeekendHandlings == {"before", "after", "none"}

DateInputs == {BaseDate + k * StartStride : k \in 0 .. MaxStartSteps}

\* the pay-day settings tried: the defaults, month ends, and a pair where
\* both days are clamped in short months
PayDaySettings ==
    {[semi |-> [firstPayDay |-> 1,  secondPayDay |-> 15], monthly |-> [payDay |-> 1]],
     [semi |-> [firstPayDay |-> 15, secondPayDay |-> 31], monthly |-> [payDay |-> 31]],
     [semi |-> [firstPayDay |-> 31, secondPayDay |-> 30], monthly |-> [payDay |-> 15]]}

PayConfigs ==
    {[DEFAULT_CONFIG EXCEPT !.paycheckFrequency = f,
                            !.weekendHandling   = w,
                            !.nextPayDate       = d,
                            !.semiMonthlyConfig = p.semi,
                            !.monthlyConfig     = p.monthly] :
        f \in PayFrequencies, w \in WeekendHandlings, d \in DateInputs,
        p \in PayDaySettings}

\* the days an expense may first be due on: month ends and ordinary days
ExpenseAnchors ==
    {d \in BaseDate .. BaseDate + MaxAnchorDays :
        getDate(d) \in {1, 15, 28, 29, 30, 31}}

\* no spend-tracking function has returned yet
NoResult == [kind |-> "none"]

NoGoalDates ==
    [dateBeforeExpenses |-> Null, dateAfterExpenses |-> Null,
     dateAfterBaseline |-> Null, periodsToGoal |-> 0]

(***************************************************************************)
(* SpecCalendar: the calendar functions applied to drawn inputs.           *)
(***************************************************************************)
InitCalendar ==
    /\ config = DEFAULT_CONFIG
    /\ today = BaseDate
    /\ pc = "start"
    /\ arg = [maxCount |-> 0]
    /\ dates = <<>>
    /\ allOccurrences = <<>>
    /\ projection = <<>>
    /\ goalDates = NoGoalDates
    /\ result = NoResult

GeneratePayDates ==
    /\ pc = "start"
    /\ \E cfg \in PayConfigs, n \in 0 .. MaxCount :
          /\ config' = cfg
          /\ arg' = [maxCount |-> n]
          /\ dates' = generatePayDates(cfg, n)
    /\ pc' = "payDates"
    /\ UNCHANGED <<today, allOccurrences, projection, goalDates, result>>

AdjustForWeekend ==
    /\ pc = "start"
    /\ \E d \in DateInputs, h \in WeekendHandlings :
          /\ arg' = [date |-> d, handling |-> h]
          /\ dates' = <<adjustForWeekend(d, h)>>
    /\ pc' = "adjusted"
    /\ UNCHANGED <<config, today, allOccurrences, projection, goalDates, result>>

\* an expense first due on `anchor`; its later due dates are stepped from it
StartStepping ==
    /\ pc = "start"
    /\ \E anchor \in ExpenseAnchors, f \in ExpenseFrequencies :
          /\ arg' = [frequency |-> f, originalDayOfMonth |-> getDate(anchor)]
          /\ dates' = <<anchor>>
    /\ pc' = "stepping"
    /\ UNCHANGED <<config, today, allOccurrences, projection, goalDates, result>>

NextOccurrence ==
    /\ pc = "stepping"
    /\ Len(dates) <= MaxSteps
    /\ dates' = Append(dates, getNextOccurrence(dates[Len(dates)], arg.frequency,
                                                arg.originalDayOfMonth))
    /\ UNCHANGED <<config, today, pc, arg, allOccurrences, projection, goalDates, result>>

NextCalendar == GeneratePayDates \/ AdjustForWeekend \/ StartStepping \/ NextOccurrence

SpecCalendar == InitCalendar /\ [][NextCalendar]_vars

(***************************************************************************)
(* SpecProjection: generateProjection and calculateGoalDates applied to    *)
(* drawn configurations on the day `today`.                                *)
(***************************************************************************)
Rent == [id |-> "e1", name |-> "Rent", amount |-> 950, frequency |-> "monthly",
         nextDueDate |-> BaseDate]

Gym == [id |-> "e2", name |-> "Gym", amount |-> 20, frequency |-> "weekly",
        nextDueDate |-> BaseDate - 2]

Car == [id |-> "e3", name |-> "Car", amount |-> 400, frequency |-> "quarterly",
        nextDueDate |-> NewDate(2023, 11, 31)]

Insurance == [id |-> "e5", name |-> "Insurance", amount |-> 3000, frequency |-> "yearly",
              nextDueDate |-> NewDate(2024, 0, 10)]

\* an expense stored without a due date
Loan == [id |-> "e4", name |-> "Loan", amount |-> 75, frequency |-> "monthly",
         nextDueDate |-> Null]

AdHoc(n, amt, inc) == [id |-> "t", periodNumber |-> n, name |-> "x",
                       amount |-> amt, isIncome |-> inc]

\* the money side of a configuration
MoneySettings ==
    {\* the end-to-end scenario: 2000 + 1800 biweekly, rent 950, baseline 300
     [currentBalance |-> 2000, paycheckAmount |-> 1800, baselineSpendPerPeriod |-> 300,
      savingsGoal |-> 5000, recurringExpenses |-> <<Rent>>, adHocTransactions |-> <<>>],
     \* the goal is met at once and the balance then falls below it
     [currentBalance |-> 9000, paycheckAmount |-> 1800, baselineSpendPerPeriod |-> 2500,
      savingsGoal |-> 5000, recurringExpenses |-> <<Rent>>, adHocTransactions |-> <<>>],
     \* spending above income: the goal is never reached
     [currentBalance |-> 100, paycheckAmount |-> 500, baselineSpendPerPeriod |-> 600,
      savingsGoal |-> 5000, recurringExpenses |-> <<Rent>>, adHocTransactions |-> <<>>],
     \* no goal set
     [currentBalance |-> 500, paycheckAmount |-> 1000, baselineSpendPerPeriod |-> 200,
      savingsGoal |-> 0, recurringExpenses |-> <<>>, adHocTransactions |-> <<>>],
     \* several expenses and ad-hoc transactions in periods 0, 1 and 2
     [currentBalance |-> 3000, paycheckAmount |-> 1500, baselineSpendPerPeriod |-> 250,
      savingsGoal |-> 5000, recurringExpenses |-> <<Rent, Gym, Loan, Car>>,
      adHocTransactions |-> <<AdHoc(0, 2500, TRUE), AdHoc(0, 70, FALSE),
                              AdHoc(1, 30, TRUE), AdHoc(2, 3500, FALSE),
                              AdHoc(2, 10, TRUE)>>],
     \* the goal is met before the first paycheck, a yearly bill then takes
     \* the balance below it, and it recovers slowly
     [currentBalance |-> 7000, paycheckAmount |-> 1800, baselineSpendPerPeriod |-> 1500,
      savingsGoal |-> 5000, recurringExpenses |-> <<Insurance>>, adHocTransactions |-> <<>>]}

\* where the period-0 anchor lies relative to today
AnchorSettings(now) ==
    {[budgetStartDate |-> Null, currentBalanceAsOf |-> Null],
     [budgetStartDate |-> Null, currentBalanceAsOf |-> now],
     [budgetStartDate |-> Null, currentBalanceAsOf |-> now - 3],
     [budgetStartDate |-> now - 20, currentBalanceAsOf |-> now]}

ProjectionConfig(f, m, a, payDate) ==
    [DEFAULT_CONFIG EXCEPT
        !.paycheckFrequency      = f,
        !.nextPayDate            = payDate,
        !.currentBalance         = m.currentBalance,
        !.paycheckAmount         = m.paycheckAmount,
        !.baselineSpendPerPeriod = m.baselineSpendPerPeriod,
        !.savingsGoal            = m.savingsGoal,
        !.recurringExpenses      = m.recurringExpenses,
        !.adHocTransactions      = m.adHocTransactions,
        !.budgetStartDate        = a.budgetStartDate,
        !.currentBalanceAsOf     = a.currentBalanceAsOf]

\* the pay date is today, or MaxPayOffset days after it, or a stale
\* StaleDays before it, or so far back that no generated pay date is left
PayDateInputs(f, now) ==
    {now, now + MaxPayOffset}
        \cup {now - StaleDays}
        \cup {IF f \in {"weekly", "biweekly"} THEN now - 14 * (maxPeriods + 1)
              ELSE NewDate(getFullYear(now) - 23, 0, 1)}

\* the two pay days of a semi-monthly schedule: the 1st and the 15th, or a
\* Saturday and the Sunday after it (13 and 14 January 2024), which the
\* weekend adjustment moves to the same day
SemiMonthlySettings(f) ==
    IF f = "semimonthly"
    THEN {DEFAULT_CONFIG.semiMonthlyConfig, [firstPayDay |-> 13, secondPayDay |-> 14]}
    ELSE {DEFAULT_CONFIG.semiMonthlyConfig}

InitProjection ==
    /\ config = DEFAULT_CONFIG
    /\ today = BaseDate
    /\ pc = "start"
    /\ arg = [baselineOverride |-> Null]
    /\ dates = <<>>
    /\ allOccurrences = <<>>
    /\ projection = <<>>
    /\ goalDates = NoGoalDates
    /\ result = NoResult

\* the stored budget is loaded (App.tsx) and the baseline override decided
LoadBudget ==
    /\ pc = "start"
    /\ \E f \in PayFrequencies, m \in MoneySettings, a \in AnchorSettings(today),
          o \in {Null, 100} :
        \E payDate \in PayDateInputs(f, today), semi \in SemiMonthlySettings(f) :
          /\ config' = [ProjectionConfig(f, m, a, payDate)
                            EXCEPT !.semiMonthlyConfig = semi]
          /\ arg' = [baselineOverride |-> o]
    /\ pc' = "loaded"
    /\ UNCHANGED <<today, dates, allOccurrences, projection, goalDates, result>>

GenerateProjection ==
    /\ pc = "loaded"
    /\ \E locals \in {ProjectionLocals(config, arg.baselineOverride, today)} :
          /\ projection' = locals.entries
          /\ dates' = locals.futurePayDates
          /\ allOccurrences' = locals.allExpenseOccurrences
    /\ pc' = "projected"
    /\ UNCHANGED <<config, today, arg, goalDates, result>>

CalculateGoalDates ==
    /\ pc = "projected"
    /\ goalDates' = calculateGoalDates(config, projection)
    /\ pc' = "goal"
    /\ UNCHANGED <<config, today, arg, dates, allOccurrences, projection, result>>

NextProjection == LoadBudget \/ GenerateProjection \/ CalculateGoalDates

SpecProjection == InitProjection /\ [][NextProjection]_vars

(***************************************************************************)
(* SpecAdvance: a stored budget with one recurring expense, over the days  *)
(* the app is open on.  Each day the app may run advancePassedDates and    *)
(* store what it returns (App.tsx), and it generates the expense           *)
(* occurrences ahead of today from the stored budget.                      *)
(***************************************************************************)
\* the days the expense is first due on
AdvanceAnchors == {NewDate(2024, 0, d) : d \in {29, 30, 31}}

\* the balance date: not set, set on one of the days the expense is first
\* due on, or set after all of them
BalanceDates == {Null, NewDate(2024, 0, 30), NewDate(2024, 1, 15)}

AdvanceConfig(f, anchor, e, asOf) ==
    [DEFAULT_CONFIG EXCEPT
        !.paycheckFrequency  = f,
        !.paycheckAmount     = 1800,
        !.nextPayDate        = NewDate(2024, 0, 5),
        !.currentBalance     = 2000,
        !.currentBalanceAsOf = asOf,
        !.recurringExpenses  = <<[id |-> "e1", name |-> "Rent", amount |-> 950,
                                  frequency |-> e, nextDueDate |-> anchor]>>]

InitAdvance ==
    /\ config = DEFAULT_CONFIG
    /\ today = BaseDate
    /\ pc = "start"
    /\ arg = [aheadOfUTC |-> FALSE, originalDay |-> 0]
    /\ dates = <<>>
    /\ allOccurrences = <<>>
    /\ projection = <<>>
    /\ goalDates = NoGoalDates
    /\ result = NoResult

\* the budget as the user entered it; arg.originalDay: the day of month the
\* expense was entered with
EnterBudget ==
    /\ pc = "start"
    /\ \E f \in PayFrequencies, anchor \in AdvanceAnchors, e \in ExpenseFrequencies,
          asOf \in BalanceDates, tz \in BOOLEAN :
          /\ config' = AdvanceConfig(f, anchor, e, asOf)
          /\ arg' = [aheadOfUTC |-> tz, originalDay |-> getDate(anchor)]
    /\ pc' = "running"
    /\ UNCHANGED <<today, dates, allOccurrences, projection, goalDates, result>>

\* useCurrentDay: the current day changes
DayChanges ==
    /\ pc = "running"
    /\ today < BaseDate + MaxDaySteps * DayStride
    /\ today' = today + DayStride
    /\ UNCHANGED <<config, pc, arg, dates, allOccurrences, projection, goalDates, result>>

\* const advanced = advancePassedDates(config, today);
\* if (advanced) setConfig(advanced)
AdvancePassedDates ==
    /\ pc = "running"
    /\ \E advanced \in {advancePassedDates(config, today, arg.aheadOfUTC)} :
          config' = IF advanced.changed THEN advanced.config ELSE config
    /\ UNCHANGED <<today, pc, arg, dates, allOccurrences, projection, goalDates, result>>

\* the occurrences of the stored expenses from today on
GenerateExpenseOccurrences ==
    /\ pc = "running"
    /\ allOccurrences' = generateExpenseOccurrences(config.recurringExpenses, today,
                                                    addMonths(today, HorizonMonths))
    /\ UNCHANGED <<config, today, pc, arg, dates, projection, goalDates, result>>

NextAdvance ==
    EnterBudget \/ DayChanges \/ AdvancePassedDates \/ GenerateExpenseOccurrences

SpecAdvance == InitAdvance /\ [][NextAdvance]_vars

(***************************************************************************)
(* SpecTransition: the app over the days it is open on (App.tsx).  A       *)
(* stored budget is loaded; on load and on every change of the current day *)
(* the auto-advance effect runs handlePeriodTransition on the projection   *)
(* of the stored budget and then advancePassedDates, and stores the        *)
(* outcome; while the app is open the user may enter a new balance.        *)
(* result holds what handlePeriodTransition returned to the effect.        *)
(* arg.aheadOfUTC: local midnight is on the previous UTC date;             *)
(* arg.utcShift: the UTC date of the present instant minus the local date. *)
(***************************************************************************)
\* the machines the app runs on: on UTC, east of Greenwich in the morning,
\* west of Greenwich in the evening
Environments ==
    {[aheadOfUTC |-> FALSE, utcShift |-> 0],
     [aheadOfUTC |-> TRUE,  utcShift |-> -1],
     [aheadOfUTC |-> FALSE, utcShift |-> 1]}

\* the stored next pay date: passed a few days before the app is opened, or
\* a few days ahead
StoredPayDates == {NewDate(2023, 11, 29), NewDate(2024, 0, 5)}

\* the stored balance date: none, before both pay dates, between them
StoredBalanceDates == {Null, NewDate(2023, 11, 27), NewDate(2023, 11, 30)}

\* the stored snapshot: none, or one taken at the start of the period
StoredSnapshots ==
    {NoSnapshot, [periodStartDate |-> NewDate(2023, 11, 27), balance |-> 2100000]}

\* the balances the user enters
NewBalances == {1523455, 2250000}

Phone == [id |-> "e1", name |-> "Phone", amount |-> 45500, frequency |-> "weekly",
          nextDueDate |-> NewDate(2024, 0, 3)]

TransitionConfig(f, payDate, asOf, snapshot) ==
    [DEFAULT_CONFIG EXCEPT
        !.paycheckFrequency      = f,
        !.paycheckAmount         = 1800000,
        !.nextPayDate            = payDate,
        !.currentBalance         = 2000000,
        !.currentBalanceAsOf     = asOf,
        !.baselineSpendPerPeriod = 300000,
        !.savingsGoal            = 2500000,
        !.recurringExpenses      = <<Phone>>,
        !.periodStartSnapshot    = snapshot]

InitTransition ==
    /\ config = DEFAULT_CONFIG
    /\ today = BaseDate
    /\ pc = "start"
    /\ arg = [aheadOfUTC |-> FALSE, utcShift |-> 0]
    /\ dates = <<>>
    /\ allOccurrences = <<>>
    /\ projection = <<>>
    /\ goalDates = NoGoalDates
    /\ result = NoResult

\* loadBudget() and setIsLoaded(true)
LoadStoredBudget ==
    /\ pc = "start"
    /\ \E f \in PayFrequencies, payDate \in StoredPayDates,
          asOf \in StoredBalanceDates, snapshot \in StoredSnapshots :
          config' = TransitionConfig(f, payDate, asOf, snapshot)
    /\ \E env \in Environments : arg' = env
    /\ pc' = "effect"
    /\ UNCHANGED <<today, dates, allOccurrences, projection, goalDates, result>>

\* what the auto-advance effect stores: advancePassedDates of the
\* transitioned config when handlePeriodTransition returned one, of the
\* config otherwise
EffectOutcome(cfg, transitionResult, now, aheadOfUTC) ==
    IF transitionResult.kind = "transition"
    THEN advancePassedDates(transitionResult.config, now, aheadOfUTC).config
    ELSE advancePassedDates(cfg, now, aheadOfUTC).config

\* the auto-advance effect (on load and on day change)
AutoAdvanceEffect ==
    /\ pc = "effect"
    /\ \E transitionResult \in
              {handlePeriodTransition(config, today, arg.utcShift, arg.aheadOfUTC,
                                      generateProjection(config, Null, today))} :
          /\ result' = transitionResult
          /\ config' = EffectOutcome(config, transitionResult, today, arg.aheadOfUTC)
    /\ pc' = "running"
    /\ UNCHANGED <<today, arg, dates, allOccurrences, projection, goalDates>>

\* useCurrentDay: the app is open again TransitionStride days later
CurrentDayChanges ==
    /\ pc = "running"
    /\ today < BaseDate + MaxOpenDays * TransitionStride
    /\ today' = today + TransitionStride
    /\ pc' = "effect"
    /\ UNCHANGED <<config, arg, dates, allOccurrences, projection, goalDates, result>>

\* handleBalanceUpdate(newBalance)
HandleBalanceUpdate ==
    /\ pc = "running"
    /\ Len(config.periodSpendHistory) < MaxHistory
    /\ \E newBalance \in NewBalances :
          config' = handleBalanceUpdate(config, MemoProjection(config, today),
                                        newBalance, utcDateOfNow(today, arg.utcShift))
    /\ UNCHANGED <<today, pc, arg, dates, allOccurrences, projection, goalDates, result>>

NextTransition ==
    LoadStoredBudget \/ AutoAdvanceEffect \/ CurrentDayChanges \/ HandleBalanceUpdate

SpecTransition == InitTransition /\ [][NextTransition]_vars

(***************************************************************************)
(* SpecBaseline: the calculatedBaseline memo of App.tsx over recorded      *)
(* histories.  A budget is loaded with the number of periods to average;   *)
(* periods are recorded with a true spend each; the memo applies           *)
(* calculateAverageBaseline to the history and the number of periods.      *)
(***************************************************************************)
\* the true spends recorded (thousandths): saved more than expected, spent
\* as expected, overspent
SpendValues == {-20000, 0, 30000, 33335, 50000}

\* periodsForBaselineCalc of the stored budgets
PeriodsToUse == 1 .. MaxPeriodsToUse

SpendEntry(trueSpend) ==
    [periodEndDate   |-> BaseDate,
     startingBalance |-> 2000000,
     expectedEnding  |-> 1500000,
     actualEnding    |-> 1500000 - trueSpend,
     trueSpend       |-> trueSpend]

InitBaseline ==
    /\ config = DEFAULT_CONFIG
    /\ today = BaseDate
    /\ pc = "start"
    /\ arg = [aheadOfUTC |-> FALSE, utcShift |-> 0]
    /\ dates = <<>>
    /\ allOccurrences = <<>>
    /\ projection = <<>>
    /\ goalDates = NoGoalDates
    /\ result = NoResult

\* a stored budget with no history yet
LoadPeriodsToUse ==
    /\ pc = "start"
    /\ \E n \in PeriodsToUse : config' = [config EXCEPT !.periodsForBaselineCalc = n]
    /\ pc' = "running"
    /\ UNCHANGED <<today, arg, dates, allOccurrences, projection, goalDates, result>>

\* a period is recorded: periodSpendHistory: [...history, entry]
RecordSpend ==
    /\ pc = "running"
    /\ Len(config.periodSpendHistory) < MaxEntries
    /\ \E trueSpend \in SpendValues :
          config' = [config EXCEPT !.periodSpendHistory =
                                       Append(@, SpendEntry(trueSpend))]
    /\ result' = NoResult
    /\ UNCHANGED <<today, pc, arg, dates, allOccurrences, projection, goalDates>>

\* the calculatedBaseline memo
CalculatedBaseline ==
    /\ pc = "running"
    /\ \E calc \in {calculateAverageBaseline(config.periodSpendHistory,
                                            config.periodsForBaselineCalc)} :
          result' = [kind |-> "average", isNull |-> calc.isNull,
                     average |-> calc.average, count |-> calc.count]
    /\ UNCHANGED <<config, today, pc, arg, dates, allOccurrences, projection, goalDates>>

NextBaseline == LoadPeriodsToUse \/ RecordSpend \/ CalculatedBaseline

SpecBaseline == InitBaseline /\ [][NextBaseline]_vars

(***************************************************************************)
(* SpecPeriods: the App that keeps config.periods, on one day, on a        *)
(* machine on UTC.  A stored budget is loaded (and migrated when it only   *)
(* has the old history); the stored pay date and due dates are ahead of    *)
(* today, so the auto-advance effect stores nothing.  Periods end and      *)
(* await confirmation; the user confirms or dismisses them in the modal,   *)
(* enters balances, starts a new cycle, and the budget is saved and loaded *)
(* again.                                                                  *)
(***************************************************************************)
\* the old histories of the stored budgets
StoredHistories == {<<>>, <<SpendEntry(50000)>>}

\* the stored snapshot: one taken at the start of the period
StoredPaycheckSnapshots ==
    {[periodStartDate |-> NewDate(2023, 11, 27), balanceBeforePaycheck |-> 2100000,
      paycheckReceived |-> FALSE]}

\* what the user enters in the modal: how far below the projected balance
\* the actual balance lies, and the variance entries
ConfirmInputs ==
    {[overspend |-> 0, varianceEntries |-> <<>>],
     [overspend |-> 80000,
      varianceEntries |-> <<[reason |-> "adhoc_expense", amount |-> 50000]>>],
     [overspend |-> 80000,
      varianceEntries |-> <<[reason |-> "planned_cost_higher", amount |-> 30000],
                            [reason |-> "baseline_miss", amount |-> 50000]>>]}

\* the balance the user enters
EnteredBalances == {1523455}

\* a stored budget that averages two periods
PeriodsConfig(history, useCalc, snapshot) ==
    [TransitionConfig("biweekly", NewDate(2024, 0, 5), NewDate(2023, 11, 27), snapshot)
        EXCEPT !.periodSpendHistory     = history,
               !.useCalculatedBaseline  = useCalc,
               !.periodsForBaselineCalc = 2]

InitPeriods ==
    /\ config = DEFAULT_CONFIG
    /\ today = BaseDate
    /\ pc = "start"
    /\ arg = [aheadOfUTC |-> FALSE, utcShift |-> 0]
    /\ dates = <<>>
    /\ allOccurrences = <<>>
    /\ projection = <<>>
    /\ goalDates = NoGoalDates
    /\ result = NoResult

\* loadBudget().then(saved => setConfig(saved))
LoadMigratedBudget ==
    /\ pc = "start"
    /\ \E history \in StoredHistories, useCalc \in BOOLEAN,
          snapshot \in StoredPaycheckSnapshots :
          config' = loadBudget(PeriodsConfig(history, useCalc, snapshot), today)
    /\ pc' = "running"
    /\ UNCHANGED <<today, arg, dates, allOccurrences, projection, goalDates, result>>

\* the budget is saved, the app closed and opened again
ReloadBudget ==
    /\ pc = "running"
    /\ config' = loadBudget(config, today)
    /\ UNCHANGED <<today, pc, arg, dates, allOccurrences, projection, goalDates, result>>

\* a period ends and awaits confirmation
DetectPeriodEnd ==
    /\ pc = "running"
    /\ Len(config.periods) < MaxPeriods
    /\ ~getPendingConfirmationPeriod(config).needsConfirmation
    /\ config' = [config EXCEPT !.periods =
                      Append(@, EndedPeriod(config,
                                    CurrentPeriod(MemoProjection(config, today)),
                                    addDays(parseISO(config.nextPayDate), -1)))]
    /\ UNCHANGED <<today, pc, arg, dates, allOccurrences, projection, goalDates, result>>

\* the modal's Confirm button: handleConfirm, then handlePeriodConfirm
HandlePeriodConfirm ==
    /\ pc = "running"
    /\ getPendingConfirmationPeriod(config).needsConfirmation
    /\ \E input \in ConfirmInputs :
          \E projectedBalance \in {getPendingConfirmationPeriod(config).projectedBalance} :
             config' = handlePeriodConfirm(config, projectedBalance - input.overspend,
                           handleConfirm(projectedBalance,
                                         projectedBalance - input.overspend,
                                         input.varianceEntries),
                           today, utcDateOfNow(today, arg.utcShift))
    /\ UNCHANGED <<today, pc, arg, dates, allOccurrences, projection, goalDates, result>>

\* the modal's Skip button: handlePeriodDismiss
HandlePeriodDismiss ==
    /\ pc = "running"
    /\ getPendingConfirmationPeriod(config).needsConfirmation
    /\ config' = handlePeriodDismiss(config, today)
    /\ UNCHANGED <<today, pc, arg, dates, allOccurrences, projection, goalDates, result>>

\* handleStartNewCycle(startDate, startingBalance)
HandleStartNewCycle ==
    /\ pc = "running"
    /\ config.budgetStartDate # NewDate(2023, 11, 30)
    /\ config' = handleStartNewCycle(config, NewDate(2023, 11, 30), 1900000)
    /\ UNCHANGED <<today, pc, arg, dates, allOccurrences, projection, goalDates, result>>

\* handleBalanceUpdate(newBalance)
HandleBalanceUpdateOfPeriods ==
    /\ pc = "running"
    /\ Len(config.periodSpendHistory) < MaxHistory
    /\ \E newBalance \in EnteredBalances :
          config' = handleBalanceUpdateOfPeriods(config, MemoProjection(config, today),
                        newBalance, utcDateOfNow(today, arg.utcShift))
    /\ UNCHANGED <<today, pc, arg, dates, allOccurrences, projection, goalDates, result>>

NextPeriods ==
    \/ LoadMigratedBudget
    \/ ReloadBudget
    \/ DetectPeriodEnd
    \/ HandlePeriodConfirm
    \/ HandlePeriodDismiss
    \/ HandleStartNewCycle
    \/ HandleBalanceUpdateOfPeriods

SpecPeriods == InitPeriods /\ [][NextPeriods]_vars

(***************************************************************************)
(* The load of a stored document (storage: loadBudget) and the legacy      *)
(* migration it runs: the document is fetched, loaded, and loaded again on *)
(* the next start.                                                         *)
(***************************************************************************)
\* the k-th entry of a legacy history: a period ending k fortnights after
\* the base date in which trueSpend more than expected was spent
LegacyEntry(k, trueSpend) ==
    [SpendEntry(trueSpend) EXCEPT !.periodEndDate = addDays(BaseDate, 14 * k)]

\* the legacy histories of up to MaxHistory entries
LegacyHistories ==
    UNION {[1 .. n -> SpendValues] : n \in 0 .. MaxHistory}

\* the periods of a stored document: none, or one completed period
StoredPeriods ==
    {<<>>,
     <<MigratedPeriod([DEFAULT_CONFIG EXCEPT
                          !.periodSpendHistory = <<LegacyEntry(0, 30000)>>],
                      0, addDays(BaseDate, -14))>>}

\* a stored document
StoredDocument(spends, asOf, periods) ==
    [DEFAULT_CONFIG EXCEPT
        !.currentBalance     = 2000000,
        !.currentBalanceAsOf = asOf,
        !.periodSpendHistory = [k \in 1 .. Len(spends) |-> LegacyEntry(k, spends[k])],
        !.periods            = periods]

InitMigration ==
    /\ config = DEFAULT_CONFIG
    /\ today = addDays(BaseDate, 14 * (MaxHistory + 1))
    /\ pc = "start"
    /\ arg = [aheadOfUTC |-> FALSE, utcShift |-> 0]
    /\ dates = <<>>
    /\ allOccurrences = <<>>
    /\ projection = <<>>
    /\ goalDates = NoGoalDates
    /\ result = NoResult

\* await fetch('/__load-config'); await response.json()
FetchStoredDocument ==
    /\ pc = "start"
    /\ \E spends \in LegacyHistories, asOf \in {Null, addDays(BaseDate, -3)},
          periods \in StoredPeriods :
          config' = StoredDocument(spends, asOf, periods)
    /\ pc' = "fetched"
    /\ UNCHANGED <<today, arg, dates, allOccurrences, projection, goalDates, result>>

\* the rest of loadBudget(): the migration if it is needed
MigrateIfNeeded ==
    /\ pc = "fetched"
    /\ config' = loadBudget(config, today)
    /\ pc' = "loaded"
    /\ UNCHANGED <<today, arg, dates, allOccurrences, projection, goalDates, result>>

\* loadBudget() on the next start, the document being the one last saved
LoadAgain ==
    /\ pc = "loaded"
    /\ config' = loadBudget(config, today)
    /\ pc' = "loaded again"
    /\ UNCHANGED <<today, arg, dates, allOccurrences, projection, goalDates, result>>

NextMigration == FetchStoredDocument \/ MigrateIfNeeded \/ LoadAgain

SpecMigration == InitMigration /\ [][NextMigration]_vars

(***************************************************************************)
(* Dates that do not parse.  parseISO returns an Invalid Date for a string *)
(* it cannot parse: its getTime() is NaN, every getter returns NaN, every  *)
(* comparison with it is false and date-fns returns Invalid Date for it.   *)
(* The loops of generatePayDates and generateExpenseOccurrences are        *)
(* followed one iteration at a time.                                       *)
(***************************************************************************)
\* a string parseISO cannot parse, and the Invalid Date it returns for it
InvalidDate == -2

\* the number NaN
NaN == -3

\* isNaN(d.getTime())
isNaN(d) == d = InvalidDate

\* generatePayDates up to its loop: startDate, currentYear, currentMonth,
\* currentDate and i
PayDatesEntry(cfg) ==
    LET startDate == parseISO(cfg.nextPayDate)
    IN  [startDate   |-> startDate,
         year        |-> IF isNaN(startDate) THEN NaN ELSE getFullYear(startDate),
         month       |-> IF isNaN(startDate) THEN NaN ELSE getMonth(startDate),
         currentDate |-> startDate,
         i           |-> 0]

\* the condition of the loop: dates.length < maxCount, or i < maxCount
PayDatesContinues(cfg, maxCount, s, payDates) ==
    IF cfg.paycheckFrequency \in {"semimonthly", "monthly"}
    THEN Len(payDates) < maxCount
    ELSE s.i < maxCount

\* one iteration of the loop.  With an Invalid Date: new Date(NaN, NaN, d)
\* is an Invalid Date, payDay >= startDate is false, NaN++ is NaN and
\* NaN > 11 is false, so the calendar loops change nothing; the interval
\* loop pushes adjustForWeekend(Invalid Date), which is the Invalid Date
\* (getDay() is NaN), and addWeeks keeps it invalid
PayDatesIterationOf(cfg, maxCount, s, payDates) ==
    IF isNaN(s.startDate)
    THEN IF cfg.paycheckFrequency \in {"semimonthly", "monthly"}
         THEN [s |-> s, dates |-> payDates]
         ELSE [s |-> [s EXCEPT !.i = @ + 1], dates |-> Append(payDates, InvalidDate)]
    ELSE IF cfg.paycheckFrequency = "semimonthly"
    THEN LET b == SemiMonthlyBody(cfg, s.startDate, maxCount,
                      [year |-> s.year, month |-> s.month, dates |-> payDates])
         IN  [s |-> [s EXCEPT !.year = b.year, !.month = b.month], dates |-> b.dates]
    ELSE IF cfg.paycheckFrequency = "monthly"
    THEN LET b == MonthlyBody(cfg, s.startDate,
                      [year |-> s.year, month |-> s.month, dates |-> payDates])
         IN  [s |-> [s EXCEPT !.year = b.year, !.month = b.month], dates |-> b.dates]
    ELSE LET b == IntervalBody(cfg,
                      [currentDate |-> s.currentDate, i |-> s.i, dates |-> payDates])
         IN  [s |-> [s EXCEPT !.currentDate = b.currentDate, !.i = b.i],
              dates |-> b.dates]

\* generateExpenseOccurrences up to the loop of an expense: currentDate.
\* !isBefore(Invalid Date, start) is true, so getFirstOccurrenceOnOrAfter
\* returns the Invalid Date
OccurrencesEntry(expense, start) ==
    IF isNaN(parseISO(expense.nextDueDate)) THEN InvalidDate
    ELSE getFirstOccurrenceOnOrAfter(expense, start)

\* the condition of the loop: !isAfter(currentDate, end); isAfter of an
\* Invalid Date is false
OccurrencesContinue(currentDate, end) ==
    isNaN(currentDate) \/ ~isAfter(currentDate, end)

\* one iteration of the loop: push, then getNextOccurrence, which keeps an
\* Invalid Date invalid
OccurrencesIterationOf(expense, currentDate, occurrences) ==
    IF isNaN(currentDate)
    THEN [currentDate |-> InvalidDate,
          occurrences |-> Append(occurrences,
                                 [expenseId |-> expense.id, name |-> expense.name,
                                  amount |-> expense.amount, date |-> InvalidDate])]
    ELSE OccurrenceBody(expense, getDate(parseISO(expense.nextDueDate)),
                        [currentDate |-> currentDate, occurrences |-> occurrences])

\* the nextPayDate and nextDueDate strings of the stored budgets
StoredDateStrings == {InvalidDate, BaseDate, NewDate(2024, 0, 20)}

InitMalformed ==
    /\ config = DEFAULT_CONFIG
    /\ today = BaseDate
    /\ pc = "start"
    /\ arg = [aheadOfUTC |-> FALSE, utcShift |-> 0]
    /\ dates = <<>>
    /\ allOccurrences = <<>>
    /\ projection = <<>>
    /\ goalDates = NoGoalDates
    /\ result = NoResult

\* generatePayDates(config, maxCount) is called and reaches its loop
CallGeneratePayDates ==
    /\ pc = "start"
    /\ \E f \in PayFrequencies, nextPayDate \in StoredDateStrings,
          maxCount \in 1 .. MaxLoop :
          \E cfg \in {[DEFAULT_CONFIG EXCEPT !.paycheckFrequency = f,
                                             !.nextPayDate = nextPayDate]} :
             /\ config' = cfg
             /\ arg' = [maxCount |-> maxCount, s |-> PayDatesEntry(cfg)]
    /\ pc' = "pay dates"
    /\ UNCHANGED <<today, dates, allOccurrences, projection, goalDates, result>>

\* one iteration of the loop of generatePayDates
PayDatesIteration ==
    /\ pc = "pay dates"
    /\ PayDatesContinues(config, arg.maxCount, arg.s, dates)
    /\ \E next \in {PayDatesIterationOf(config, arg.maxCount, arg.s, dates)} :
          /\ arg' = [arg EXCEPT !.s = next.s]
          /\ dates' = next.dates
    /\ UNCHANGED <<config, today, pc, allOccurrences, projection, goalDates, result>>

\* return dates
PayDatesReturn ==
    /\ pc = "pay dates"
    /\ ~PayDatesContinues(config, arg.maxCount, arg.s, dates)
    /\ pc' = "returned"
    /\ UNCHANGED <<config, today, arg, dates, allOccurrences, projection, goalDates,
                   result>>

\* generateExpenseOccurrences([expense], today, today + 4 weeks) is called
\* and reaches the loop of the expense
CallGenerateExpenseOccurrences ==
    /\ pc = "start"
    /\ \E f \in ExpenseFrequencies, nextDueDate \in StoredDateStrings :
          \E expense \in {[id |-> 1, name |-> "Rent", amount |-> 100000,
                            frequency |-> f, nextDueDate |-> nextDueDate]} :
             /\ config' = [DEFAULT_CONFIG EXCEPT !.recurringExpenses = <<expense>>]
             /\ arg' = [end |-> addWeeks(today, 4),
                        currentDate |-> OccurrencesEntry(expense, startOfDay(today))]
    /\ pc' = "occurrences"
    /\ UNCHANGED <<today, dates, allOccurrences, projection, goalDates, result>>

\* one iteration of the loop of generateExpenseOccurrences; a loop over an
\* Invalid Date is followed for MaxLoop entries
OccurrencesIteration ==
    /\ pc = "occurrences"
    /\ OccurrencesContinue(arg.currentDate, arg.end)
    /\ isNaN(arg.currentDate) => Len(allOccurrences) < MaxLoop
    /\ \E next \in {OccurrencesIterationOf(config.recurringExpenses[1],
                                            arg.currentDate, allOccurrences)} :
          /\ arg' = [arg EXCEPT !.currentDate = next.currentDate]
          /\ allOccurrences' = next.occurrences
    /\ UNCHANGED <<config, today, pc, dates, projection, goalDates, result>>

\* return occurrences.sort(...)
OccurrencesReturn ==
    /\ pc = "occurrences"
    /\ ~OccurrencesContinue(arg.currentDate, arg.end)
    /\ pc' = "returned"
    /\ UNCHANGED <<config, today, arg, dates, allOccurrences, projection, goalDates,
                   result>>

NextMalformed ==
    \/ CallGeneratePayDates
    \/ PayDatesIteration
    \/ PayDatesReturn
    \/ CallGenerateExpenseOccurrences
    \/ OccurrencesIteration
    \/ OccurrencesReturn

\* a call that can take a step takes it
SpecMalformed == InitMalformed /\ [][NextMalformed]_vars /\ WF_vars(NextMalformed)

(***************************************************************************)
(* Persistence: the load effect and the auto-save effect of the App,       *)
(* saveBudget / loadBudget of the storage module and the /__save-config    *)
(* and /__load-config handlers of the dev server.  arg holds the document  *)
(* on disk, the POST requests under way, isLoaded and what loadBudget      *)
(* resolved to.  A save is a request of its own, not awaited by the        *)
(* effect: the server handles the requests under way in any order.         *)
(***************************************************************************)
\* data/budget.json: no file, a text JSON.parse rejects, or a config
DocumentMissing == [kind |-> "none", body |-> DEFAULT_CONFIG]

DocumentMalformed == [kind |-> "malformed", body |-> DEFAULT_CONFIG]

Document(cfg) == [kind |-> "config", body |-> cfg]

\* the budget the user had saved
SavedBudget ==
    [DEFAULT_CONFIG EXCEPT !.currentBalance = 2000000, !.paycheckAmount = 1800000]

\* the transactions the user adds
NewTransactions ==
    {[periodNumber |-> 0, amount |-> 25000, isIncome |-> FALSE],
     [periodNumber |-> 1, amount |-> 70000, isIncome |-> TRUE]}

\* what loadBudget() resolves to for the document on disk: null (isNull)
\* when the fetch fails, the file is missing (404) or response.json()
\* rejects; else the config, migrated if needed
LoadedBudget(document, fetchFails, now) ==
    IF fetchFails \/ document.kind # "config"
    THEN [isNull |-> TRUE, config |-> DEFAULT_CONFIG]
    ELSE [isNull |-> FALSE, config |-> loadBudget(document.body, now)]

\* fetch('/__save-config', {method: 'POST', body: JSON.stringify(config)}):
\* the n-th request the app issues
SaveRequest(n, cfg) == [n |-> n, body |-> cfg]

\* the setConfig callback of handleAddTransaction(txn)
handleAddTransaction(prev, txn) ==
    [prev EXCEPT !.adHocTransactions =
        Append(@, [id           |-> Len(prev.adHocTransactions) + 1,
                   periodNumber |-> txn.periodNumber,
                   amount       |-> txn.amount,
                   isIncome     |-> txn.isIncome])]

InitStorage ==
    /\ config = DEFAULT_CONFIG
    /\ today = BaseDate
    /\ pc = "start"
    /\ \E document \in {DocumentMissing, DocumentMalformed, Document(SavedBudget)} :
          arg = [disk |-> document, inflight |-> {}, isLoaded |-> FALSE,
                 saved |-> "pending", issued |-> 0]
    /\ dates = <<>>
    /\ allOccurrences = <<>>
    /\ projection = <<>>
    /\ goalDates = NoGoalDates
    /\ result = NoResult

\* loadBudget().then(saved => { if (saved) setConfig(saved);
\* setIsLoaded(true) }), and the auto-save effect that runs because
\* isLoaded changed: saveBudget(config)
LoadBudgetResolves ==
    /\ pc = "start"
    /\ \E fetchFails \in BOOLEAN :
          \E saved \in {LoadedBudget(arg.disk, fetchFails, today)} :
             \E loaded \in {IF saved.isNull THEN config ELSE saved.config} :
                /\ config' = loaded
                /\ arg' = [arg EXCEPT
                              !.isLoaded = TRUE,
                              !.saved    = IF saved.isNull THEN "null" ELSE "config",
                              !.inflight = @ \cup {SaveRequest(1, loaded)},
                              !.issued   = 1]
    /\ pc' = "loaded"
    /\ UNCHANGED <<today, dates, allOccurrences, projection, goalDates, result>>

\* handleAddTransaction(txn), and the auto-save effect that runs because
\* config changed
HandleAddTransaction ==
    /\ pc = "loaded"
    /\ arg.issued < MaxSaves
    /\ \E txn \in NewTransactions :
          \E edited \in {handleAddTransaction(config, txn)} :
             /\ config' = edited
             /\ arg' = [arg EXCEPT
                           !.inflight = @ \cup {SaveRequest(arg.issued + 1, edited)},
                           !.issued   = @ + 1]
    /\ UNCHANGED <<today, pc, dates, allOccurrences, projection, goalDates, result>>

\* the /__save-config handler receives the end of one of the requests
\* under way: JSON.parse(body); fs.writeFileSync(configFile, body)
ServerSavesConfig ==
    /\ \E request \in arg.inflight :
          arg' = [arg EXCEPT !.disk = Document(request.body),
                             !.inflight = @ \ {request}]
    /\ UNCHANGED <<config, today, pc, dates, allOccurrences, projection, goalDates,
                   result>>

NextStorage == LoadBudgetResolves \/ HandleAddTransaction \/ ServerSavesConfig

SpecStorage == InitStorage /\ [][NextStorage]_vars

(***************************************************************************)
(* Claims about the calendar functions (checked under SpecCalendar).       *)
(***************************************************************************)
IsNonDecreasing(seq) == \A i \in 1 .. Len(seq) - 1 : seq[i] <= seq[i + 1]

\* C1: for every pay frequency, weekendHandling and maxCount >= 0,
\* generatePayDates(config, maxCount) returns exactly maxCount dates, in
\* non-decreasing order, each on or after config.nextPayDate.
C1_PayDatesContract ==
    pc = "payDates" =>
        /\ Len(dates) = arg.maxCount
        /\ IsNonDecreasing(dates)
        /\ \A i \in 1 .. Len(dates) : dates[i] >= parseISO(config.nextPayDate)

\* C1, the part the code keeps: exactly maxCount dates in non-decreasing
\* order, and every date on or after nextPayDate unless the schedule is
\* weekly/biweekly with weekendHandling 'before'.
C1_PayDatesLengthAndOrder ==
    pc = "payDates" =>
        /\ Len(dates) = arg.maxCount
        /\ IsNonDecreasing(dates)
        /\ (config.paycheckFrequency \in {"semimonthly", "monthly"}
              \/ config.weekendHandling # "before")
            => \A i \in 1 .. Len(dates) : dates[i] >= parseISO(config.nextPayDate)

\* C8: adjustForWeekend(d, 'none') = d; a weekday is unchanged by 'before'
\* and 'after'; a Saturday or Sunday goes to the preceding Friday under
\* 'before' and to the following Monday under 'after'; the result of
\* 'before' or 'after' is never a Saturday or Sunday.
C8_AdjustForWeekend ==
    pc = "adjusted" =>
        LET d == arg.date
            r == dates[1]
        IN  /\ arg.handling = "none" => r = d
            /\ getDay(d) \in 1 .. 5 => r = d
            /\ (getDay(d) \in {0, 6} /\ arg.handling = "before")
                  => (getDay(r) = 5 /\ r < d /\ d - r <= 2)
            /\ (getDay(d) \in {0, 6} /\ arg.handling = "after")
                  => (getDay(r) = 1 /\ r > d /\ r - d <= 2)
            /\ arg.handling # "none" => getDay(r) \notin {0, 6}

C8_Witness ==
    /\ pc = "adjusted"
    /\ getDay(arg.date) = 0
    /\ arg.handling = "before"
    /\ dates[1] = arg.date - 2

\* the month count of a date: year * 12 + month
MonthIndex(d) == getFullYear(d) * 12 + getMonth(d)

\* C9: stepping a monthly expense anchored on the 31st forward with
\* getNextOccurrence (originalDayOfMonth = 31) yields one date in each
\* successive calendar month: the 31st of a 31-day month, the 30th of
\* Apr/Jun/Sep/Nov, the 28th or 29th of February (the month's last day).
C9_MonthlyOn31st ==
    (pc = "stepping" /\ arg.frequency = "monthly" /\ arg.originalDayOfMonth = 31) =>
        \A i \in 1 .. Len(dates) :
            /\ MonthIndex(dates[i]) = MonthIndex(dates[1]) + (i - 1)
            /\ getDate(dates[i] + 1) = 1
            /\ getDate(dates[i]) =
                  (CASE getMonth(dates[i]) \in {0, 2, 4, 6, 7, 9, 11} -> 31
                     [] getMonth(dates[i]) \in {3, 5, 8, 10} -> 30
                     [] OTHER -> IF getFullYear(dates[i]) % 4 = 0 THEN 29 ELSE 28)

C9_Witness ==
    /\ pc = "stepping"
    /\ arg.frequency = "monthly"
    /\ arg.originalDayOfMonth = 31
    /\ Len(dates) = 13
    /\ \E i \in 1 .. 12 : getMonth(dates[i]) = 1 /\ getDate(dates[i + 1]) = 31

(***************************************************************************)
(* Claims about generateProjection and calculateGoalDates (checked under   *)
(* SpecProjection).  In a state with pc = "projected" or "goal",           *)
(* projection is the result, dates the pay dates on or after today the     *)
(* call generated and allOccurrences the expense occurrences it generated. *)
(***************************************************************************)
\* the period-0 anchor: budgetStartDate if set, else currentBalanceAsOf if
\* set, else today
Anchor == IF config.budgetStartDate # Null THEN config.budgetStartDate
          ELSE IF config.currentBalanceAsOf # Null THEN config.currentBalanceAsOf
          ELSE today

\* the baseline in force: the override when supplied
BaselineInForce == IF arg.baselineOverride # Null THEN arg.baselineOverride
                   ELSE config.baselineSpendPerPeriod

\* the ad-hoc amounts of the configuration tagged with period n
AdHocTotal(n, income) ==
    SumAmounts(SelectSeq(config.adHocTransactions,
                         LAMBDA t : t.periodNumber = n /\ t.isIncome = income))

\* the amounts of the generated occurrences dated from..to
OccurrenceTotal(from, to) ==
    SumAmounts(SelectSeq(allOccurrences, LAMBDA occ : from <= occ.date /\ occ.date <= to))

HasPeriod0 == Len(projection) > 0 /\ projection[1].periodNumber = 0

FullPeriods == SelectSeq(projection, LAMBDA e : e.periodNumber >= 1)

\* the entries whose balanceAfterBaseline is at or above the goal
Crossings == {j \in 1 .. Len(projection) :
                 projection[j].balanceAfterBaseline >= config.savingsGoal}

\* C2: for every full period n >= 1, balanceAfterIncome(n) =
\* balanceAfterBaseline(previous entry) + paycheckAmount + adHocIncome(n),
\* the previous entry being period n-1 (period 0 when emitted) and the
\* previous balance of period 1 being currentBalance when no period 0 was
\* emitted; balanceAfterExpenses = balanceAfterIncome - recurring expenses
\* in the window - adHocExpenses; balanceAfterBaseline =
\* balanceAfterExpenses - effective baseline (the override when supplied).
C2_BalanceChain ==
    pc = "projected" =>
        \A j \in 1 .. Len(projection) :
            LET e    == projection[j]
                n    == e.periodNumber
                prev == IF j = 1 THEN config.currentBalance
                        ELSE projection[j - 1].balanceAfterBaseline
                windowEnd == IF n < Len(dates) THEN dates[n + 1] - 1
                             ELSE addMonths(dates[n], 1)
            IN  n >= 1 =>
                  /\ IF j = 1 THEN n = 1 ELSE projection[j - 1].periodNumber = n - 1
                  /\ e.adHocIncome = AdHocTotal(n, TRUE)
                  /\ e.adHocExpenses = AdHocTotal(n, FALSE)
                  /\ e.expenses = OccurrenceTotal(dates[n], windowEnd)
                  /\ e.balanceAfterIncome = prev + config.paycheckAmount + e.adHocIncome
                  /\ e.balanceAfterExpenses =
                         e.balanceAfterIncome - e.expenses - e.adHocExpenses
                  /\ e.balanceAfterBaseline = e.balanceAfterExpenses - BaselineInForce

C2_Witness ==
    /\ pc = "projected"
    /\ arg.baselineOverride # Null
    /\ HasPeriod0
    /\ Len(projection) >= 3
    /\ \E j \in 2 .. Len(projection) :
          /\ projection[j].adHocIncome > 0
          /\ projection[j].adHocExpenses > 0
          /\ projection[j].expenses > 0

\* C3: a period-0 entry is emitted exactly when the span from the anchor to
\* the first pay date on or after today is more than 0 days; it has income
\* 0, its expenses are the recurring-expense occurrences dated from the
\* anchor up to the day before that pay date, its ad-hoc transactions are
\* those tagged periodNumber 0, and its balances start from currentBalance.
C3_Period0 ==
    pc = "projected" =>
        /\ HasPeriod0 <=> (Len(dates) > 0 /\ dates[1] - Anchor > 0)
        /\ \A j \in 2 .. Len(projection) : projection[j].periodNumber # 0
        /\ HasPeriod0 =>
             LET e == projection[1]
             IN  /\ e.income = 0
                 /\ e.expenseDetails =
                        generateExpenseOccurrences(config.recurringExpenses,
                                                   Anchor, dates[1] - 1)
                 /\ e.expenses = SumAmounts(e.expenseDetails)
                 /\ e.adHocDetails = SelectSeq(config.adHocTransactions,
                                               LAMBDA t : t.periodNumber = 0)
                 /\ e.adHocIncome = AdHocTotal(0, TRUE)
                 /\ e.adHocExpenses = AdHocTotal(0, FALSE)
                 /\ e.balanceAfterIncome = config.currentBalance + e.adHocIncome
                 /\ e.balanceAfterExpenses =
                        e.balanceAfterIncome - e.expenses - e.adHocExpenses

C3_Witness ==
    /\ pc = "projected"
    /\ config.budgetStartDate # Null
    /\ dates # <<>>
    /\ dates[1] = today
    /\ HasPeriod0
    /\ Len(projection[1].expenseDetails) >= 2
    /\ Len(projection[1].adHocDetails) >= 2

\* the end-to-end scenario: today 2024-01-01, biweekly paycheck 1800 from
\* 2024-01-05, rent 950 monthly due 2024-01-01, baseline 300, goal 5000,
\* balance 2000 as of 2024-01-01
ScenarioConfig ==
    [DEFAULT_CONFIG EXCEPT
        !.paycheckFrequency      = "biweekly",
        !.paycheckAmount         = 1800,
        !.nextPayDate            = NewDate(2024, 0, 5),
        !.recurringExpenses      = <<[id |-> "e1", name |-> "Rent", amount |-> 950,
                                      frequency |-> "monthly",
                                      nextDueDate |-> NewDate(2024, 0, 1)]>>,
        !.baselineSpendPerPeriod = 300,
        !.savingsGoal            = 5000,
        !.currentBalance         = 2000,
        !.currentBalanceAsOf     = NewDate(2024, 0, 1)]

ScenarioProjected ==
    /\ pc = "projected"
    /\ today = NewDate(2024, 0, 1)
    /\ config = ScenarioConfig
    /\ arg.baselineOverride = Null

\* period 0 is dated today, holds the 950 expense of Jan 1 and nothing
\* dated after Jan 4, and period 1 is the pay date 2024-01-05
ScenarioPeriods ==
    /\ Len(projection) >= 2
    /\ projection[1].periodNumber = 0
    /\ projection[1].date = NewDate(2024, 0, 1)
    /\ projection[1].expenses = 950
    /\ Len(projection[1].expenseDetails) = 1
    /\ projection[1].expenseDetails[1].date = NewDate(2024, 0, 1)
    /\ projection[2].periodNumber = 1
    /\ projection[2].date = NewDate(2024, 0, 5)

\* C4 as stated: in the end-to-end scenario period 0 spans Jan 1 - Jan 4 and
\* contains the 950 expense, and period 1 (pay date 2024-01-05) has
\* balanceAfterBaseline = 2550.
C4_ScenarioAsStated ==
    ScenarioProjected =>
        /\ ScenarioPeriods
        /\ projection[2].balanceAfterBaseline = 2550

\* C4, amended: in the end-to-end scenario period 0 spans Jan 1 - Jan 4 and
\* contains the 950 expense; the baseline is spent in period 0 too, so
\* period 0 ends at 2000 - 950 - 300 = 750 and period 1 has
\* balanceAfterBaseline = 750 + 1800 - 300 = 2250.
C4_ScenarioAmended ==
    ScenarioProjected =>
        /\ ScenarioPeriods
        /\ projection[1].balanceAfterBaseline = 750
        /\ projection[2].expenses = 0
        /\ projection[2].balanceAfterBaseline = 2250

C4_Witness ==
    /\ ScenarioProjected
    /\ Len(projection) >= 2
    /\ projection[2].periodNumber = 1
    /\ projection[2].income = 1800

\* C5: the result holds at most 260 full-period entries and at most one
\* period-0 entry; the full periods are numbered 1, 2, 3, ... and are the
\* generated pay dates on or after today, in order; when no entry's
\* balanceAfterBaseline reaches savingsGoal every one of those pay dates
\* has its entry (only the 260-date cap ends the projection); when no
\* generated pay date is on or after today the result is empty.
C5_BoundedProjection ==
    pc = "projected" =>
        /\ Len(FullPeriods) <= 260
        /\ Len(dates) <= 260
        /\ Len(projection) - Len(FullPeriods) <= 1
        /\ \A j \in 1 .. Len(FullPeriods) :
              /\ FullPeriods[j].periodNumber = j
              /\ FullPeriods[j].date = dates[j]
              /\ FullPeriods[j].date >= today
              /\ j > 1 => FullPeriods[j - 1].date <= FullPeriods[j].date
        /\ Crossings = {} => Len(FullPeriods) = Len(dates)
        /\ Len(dates) = 0 => projection = <<>>

C5_Witness ==
    /\ pc = "projected"
    /\ Crossings = {}
    /\ HasPeriod0
    /\ Len(projection) = 261

\* E = ceil(3 months x periods per month): 52/12, 26/12, 2 and 1 per month
ExtensionPeriods ==
    CASE config.paycheckFrequency = "weekly"      -> 13
      [] config.paycheckFrequency = "biweekly"    -> 7
      [] config.paycheckFrequency = "semimonthly" -> 6
      [] config.paycheckFrequency = "monthly"     -> 3

\* C6: unless the 260-period cap ends the projection first, the number of
\* entries after the first entry whose balanceAfterBaseline >= savingsGoal
\* is exactly E, both when that entry is period 0 and when it is a full
\* period; the other two balances do not start the window.
C6_ExactlyEAfterCrossing ==
    (pc = "projected" /\ Crossings # {} /\ Len(FullPeriods) < Len(dates)) =>
        LET first == CHOOSE j \in Crossings : \A k \in Crossings : j <= k
        IN  Len(projection) - first = ExtensionPeriods

\* the first full period the balance picked by Reaches meets the goal in
FirstFullPeriod(Reaches(_)) ==
    LET hits == {j \in 1 .. Len(projection) :
                    projection[j].periodNumber >= 1 /\ Reaches(projection[j])}
    IN  IF hits = {} THEN Null ELSE CHOOSE j \in hits : \A k \in hits : j <= k

DateOfEntry(j) == IF j = Null THEN Null ELSE projection[j].date

\* C7: for savingsGoal > 0 each of the three goal dates is the date of the
\* first entry with periodNumber >= 1 whose balance is >= savingsGoal (null
\* if none); periodsToGoal is the periodNumber of the first after-baseline
\* crossing among them and is >= 1 whenever dateAfterBaseline is non-null,
\* even if the balances of period 0 already meet the goal.
C7_GoalSkipsPeriod0 ==
    (pc = "goal" /\ config.savingsGoal > 0) =>
        LET goal == config.savingsGoal
            b == FirstFullPeriod(LAMBDA e : e.balanceAfterIncome >= goal)
            x == FirstFullPeriod(LAMBDA e : e.balanceAfterExpenses >= goal)
            a == FirstFullPeriod(LAMBDA e : e.balanceAfterBaseline >= goal)
        IN  /\ goalDates.dateBeforeExpenses = DateOfEntry(b)
            /\ goalDates.dateAfterExpenses = DateOfEntry(x)
            /\ goalDates.dateAfterBaseline = DateOfEntry(a)
            /\ a # Null => goalDates.periodsToGoal = projection[a].periodNumber
            /\ goalDates.dateAfterBaseline # Null => goalDates.periodsToGoal >= 1

C7_Witness ==
    /\ pc = "goal"
    /\ config.savingsGoal > 0
    /\ HasPeriod0
    /\ projection[1].balanceAfterBaseline >= config.savingsGoal
    /\ goalDates.dateAfterBaseline # Null
    /\ goalDates.periodsToGoal = 1

(***************************************************************************)
(* Claims about advancePassedDates (checked under SpecAdvance).            *)
(***************************************************************************)
\* C10: after any sequence of advancePassedDates calls, each storing the
\* returned nextDueDate, generateExpenseOccurrences still puts a
\* monthly/quarterly/yearly expense entered on the 29th, 30th or 31st on
\* that day in every month long enough to have it, even when an advance
\* landed its nextDueDate on a clamped date.
C10_OriginalDaySurvives ==
    (/\ pc = "running"
     /\ config.recurringExpenses[1].frequency \in {"monthly", "quarterly", "yearly"}
     /\ arg.originalDay \in {29, 30, 31}) =>
        \A k \in 1 .. Len(allOccurrences) :
            LET d == allOccurrences[k].date
            IN  lastDayOfMonth(getFullYear(d), getMonth(d)) >= arg.originalDay
                    => getDate(d) = arg.originalDay

(***************************************************************************)
(* Claims about generateExpenseOccurrences (checked under SpecProjection). *)
(***************************************************************************)
\* the months between two due dates of an expense of the given frequency
\* (0: the frequency steps by weeks)
MonthsPerStep(frequency) ==
    CASE frequency = "monthly" -> 1 [] frequency = "quarterly" -> 3
      [] frequency = "yearly" -> 12 [] OTHER -> 0

\* the dates of the recurrence of `expense` from `from` to `to`, both
\* included: its nextDueDate plus whole weeks, or the day of month of its
\* nextDueDate (the month's last day when the month is shorter) in every
\* first, third or twelfth month after it
RecurrenceDates(expense, from, to) ==
    LET anchor == expense.nextDueDate
        lo     == IF anchor > from THEN anchor ELSE from
        step   == MonthsPerStep(expense.frequency)
        days   == IF expense.frequency = "weekly" THEN 7 ELSE 14
    IN  IF step = 0
        THEN {d \in lo .. to : (d - anchor) % days = 0}
        ELSE {d \in {DateInMonth((MonthIndex(anchor) + step * k) \div 12,
                                  (MonthIndex(anchor) + step * k) % 12,
                                  getDate(anchor)) :
                        k \in 0 .. ((MonthIndex(to) - MonthIndex(anchor)) \div step) + 1} :
                 lo <= d /\ d <= to}

\* the range generateProjection asks the occurrences for
RangeStart == Anchor

RangeEnd == addMonths(dates[Len(dates)], 1)

DatedExpenses ==
    {k \in 1 .. Len(config.recurringExpenses) :
        config.recurringExpenses[k].nextDueDate # Null}

\* <<id, date>> of every recurrence date in the range of every expense with a
\* nextDueDate
ExpectedOccurrences ==
    UNION {{<<config.recurringExpenses[k].id, d>> :
               d \in RecurrenceDates(config.recurringExpenses[k], RangeStart, RangeEnd)} :
           k \in DatedExpenses}

\* C11: the occurrences generated for a range are, for every expense with a
\* nextDueDate, exactly the dates of its recurrence from rangeStart (or from
\* its nextDueDate when that is later) to rangeEnd, both included, each
\* once and with the expense's id, name and amount; they are sorted by date
\* and, on one date, by name; an expense without nextDueDate adds nothing
C11_OccurrencesInRange ==
    (pc \in {"projected", "goal"} /\ Len(dates) > 0) =>
        /\ {<<allOccurrences[j].expenseId, allOccurrences[j].date>> :
                j \in 1 .. Len(allOccurrences)} = ExpectedOccurrences
        /\ Len(allOccurrences) = Cardinality(ExpectedOccurrences)
        /\ \A j \in 1 .. Len(allOccurrences) :
              \E k \in DatedExpenses :
                 /\ allOccurrences[j].expenseId = config.recurringExpenses[k].id
                 /\ allOccurrences[j].name = config.recurringExpenses[k].name
                 /\ allOccurrences[j].amount = config.recurringExpenses[k].amount
        /\ \A j \in 1 .. Len(allOccurrences) - 1 :
              \/ allOccurrences[j].date < allOccurrences[j + 1].date
              \/ /\ allOccurrences[j].date = allOccurrences[j + 1].date
                 /\ localeCompare(allOccurrences[j].name, allOccurrences[j + 1].name) <= 0

\* occurrences of a budget with an expense due before the range, one due in
\* it and one without a due date, with two occurrences on one day and one on
\* the last day of the range
C11_Witness ==
    /\ pc = "projected"
    /\ Len(dates) > 0
    /\ \E k \in 1 .. Len(config.recurringExpenses) :
          config.recurringExpenses[k].nextDueDate = Null
    /\ \E k \in DatedExpenses : config.recurringExpenses[k].nextDueDate < RangeStart
    /\ \E k \in DatedExpenses : config.recurringExpenses[k].nextDueDate >= RangeStart
    /\ \E j \in 1 .. Len(allOccurrences) - 1 :
          allOccurrences[j].date = allOccurrences[j + 1].date
    /\ \E j \in 1 .. Len(allOccurrences) : allOccurrences[j].date = RangeEnd
    /\ \E j \in 1 .. Len(allOccurrences) : allOccurrences[j].date = RangeStart

(***************************************************************************)
(* Claims about period transitions and spend tracking (checked under       *)
(* SpecTransition).                                                        *)
(***************************************************************************)
\* the step in which the auto-advance effect runs
EffectRuns == pc = "effect" /\ pc' = "running"

\* the period that closes at the pay date that has passed: period 0 of the
\* projection of cfg on the eve of that pay date
ClosedPeriod(cfg) ==
    CurrentPeriod(generateProjection(cfg, Null, addDays(parseISO(cfg.nextPayDate), -1)))

\* the history entry calculateTrueSpend gives for the closed period when the
\* balance becomes newBalance
ClosedPeriodSpend(cfg, closed, newBalance) ==
    calculateTrueSpend(cfg.periodStartSnapshot.balance, closed.income, closed.expenses,
                       closed.adHocIncome, closed.adHocExpenses, newBalance)

\* after is before with one entry appended, computed by calculateTrueSpend
\* for the closed period
AppendsClosedPeriod(cfg, before, after, closed) ==
    /\ Len(after) = Len(before) + 1
    /\ SubSeq(after, 1, Len(before)) = before
    /\ after[Len(after)].actualEnding = closed.balanceAfterBaseline
    /\ after[Len(after)].trueSpend =
           ClosedPeriodSpend(cfg, closed, closed.balanceAfterBaseline).trueSpend
    /\ after[Len(after)].expectedEnding =
           ClosedPeriodSpend(cfg, closed, closed.balanceAfterBaseline).expectedEnding

\* what C12 says of handlePeriodTransition(cfg, now, ...) = outcome when
\* the pay date has passed and the balance date is unset or earlier
ClosesPeriod(cfg, now, outcome, closed) ==
    /\ outcome.kind = "transition"
    /\ outcome.config.currentBalance = closed.balanceAfterBaseline
    /\ outcome.config.currentBalanceAsOf = now
    /\ outcome.config.periodStartSnapshot =
           [periodStartDate |-> now, balance |-> closed.balanceAfterBaseline]
    /\ IF HasSnapshot(cfg)
       THEN AppendsClosedPeriod(cfg, cfg.periodSpendHistory,
                                outcome.config.periodSpendHistory, closed)
       ELSE outcome.config.periodSpendHistory = cfg.periodSpendHistory

\* C12: when nextPayDate is before today and currentBalanceAsOf is unset or
\* earlier than that pay date, handlePeriodTransition sets currentBalance to
\* the balanceAfterBaseline projected for the period ending at the passed
\* pay date, sets currentBalanceAsOf and periodStartSnapshot to today with
\* that balance, and appends one periodSpendHistory entry computed by
\* calculateTrueSpend when a snapshot existed; when nextPayDate is today or
\* later it returns null and nothing changes.
C12_TransitionClosesPeriod ==
    [][EffectRuns =>
         IF ~isBefore(parseISO(config.nextPayDate), today)
         THEN /\ result'.kind = "null"
              /\ config'.currentBalance = config.currentBalance
              /\ config'.currentBalanceAsOf = config.currentBalanceAsOf
              /\ config'.periodStartSnapshot = config.periodStartSnapshot
              /\ config'.periodSpendHistory = config.periodSpendHistory
         ELSE (\/ config.currentBalanceAsOf = Null
               \/ isBefore(parseISO(config.currentBalanceAsOf),
                           parseISO(config.nextPayDate)))
              => ClosesPeriod(config, utcDateOfNow(today, arg.utcShift), result',
                              ClosedPeriod(config))]_vars

\* C13: when the pay date has passed and currentBalanceAsOf is on or after
\* it (the user already entered a balance), handlePeriodTransition leaves
\* currentBalance, currentBalanceAsOf, periodSpendHistory, nextPayDate and
\* the recurring expenses as they are, sets only periodStartSnapshot, to
\* {currentBalanceAsOf, currentBalance}, and reports trueSpend 0.
C13_AlreadyUpdated ==
    [][(/\ EffectRuns
        /\ isBefore(parseISO(config.nextPayDate), today)
        /\ config.currentBalanceAsOf # Null
        /\ ~isBefore(parseISO(config.currentBalanceAsOf), parseISO(config.nextPayDate)))
       => /\ result'.kind = "transition"
          /\ result'.trueSpend = 0
          /\ result'.config =
                 [config EXCEPT !.periodStartSnapshot =
                     [periodStartDate |-> config.currentBalanceAsOf,
                      balance         |-> config.currentBalance]]]_vars

\* the effect has just run on a stored budget whose balance date lies after
\* the passed pay date, and handlePeriodTransition returned a result that
\* kept both
C13_Witness ==
    /\ pc = "running"
    /\ result.kind = "transition"
    /\ result.trueSpend = 0
    /\ isBefore(parseISO(result.config.nextPayDate), today)
    /\ result.config.currentBalanceAsOf \in StoredBalanceDates \ {Null}
    /\ ~isBefore(parseISO(result.config.currentBalanceAsOf),
                 parseISO(result.config.nextPayDate))
    /\ result.config.periodStartSnapshot.periodStartDate =
           result.config.currentBalanceAsOf
    /\ config.nextPayDate # result.config.nextPayDate

\* the period whose figures the step from the current state records: period
\* 0 (or the first period) of the projection the running handler reads
RecordedPeriod ==
    IF pc = "effect" THEN CurrentPeriod(generateProjection(config, Null, today))
    ELSE CurrentPeriod(MemoProjection(config, today))

\* entry carries the expected ending and the true spend of a period with
\* the figures of period p, rounded to 2 decimals
FollowsTrueSpend(entry, p) ==
    LET expected == entry.startingBalance + p.income - p.expenses
                        + p.adHocIncome - p.adHocExpenses
    IN  /\ entry.expectedEnding = 10 * ((expected + 5) \div 10)
        /\ entry.trueSpend = 10 * ((expected - entry.actualEnding + 5) \div 10)

\* the entries of after that before does not hold
NewEntries(before, after) ==
    {k \in 1 .. Len(after) : \A i \in 1 .. Len(before) : before[i] # after[k]}

\* C14: every periodSpendHistory entry recorded satisfies expectedEnding =
\* startingBalance + income - expenses + adHocIncome - adHocExpenses and
\* trueSpend = expectedEnding - actualEnding, both rounded to 2 decimals.
C14_EntriesFollowTrueSpend ==
    [][\A k \in NewEntries(config.periodSpendHistory, config'.periodSpendHistory) :
          FollowsTrueSpend(config'.periodSpendHistory[k], RecordedPeriod)]_vars

\* the entries handleBalanceUpdate records satisfy the identity
ManualEntriesFollowTrueSpend ==
    [][pc = "running" =>
       \A k \in NewEntries(config.periodSpendHistory, config'.periodSpendHistory) :
          FollowsTrueSpend(config'.periodSpendHistory[k], RecordedPeriod)]_vars

\* before is a prefix of after
IsPrefix(before, after) ==
    /\ Len(before) <= Len(after)
    /\ \A k \in 1 .. Len(before) : after[k] = before[k]

\* C20: periodSpendHistory is append-only: no automatic transition, date
\* advance or balance update removes or rewrites an entry already recorded,
\* so the number of recorded periods never decreases.
C20_HistoryAppendOnly ==
    [][IsPrefix(config.periodSpendHistory, config'.periodSpendHistory)]_vars

(***************************************************************************)
(* Claims about calculateAverageBaseline (checked under SpecBaseline).     *)
(***************************************************************************)
\* the positions of the last n entries of the history
LastPositions(n) ==
    {k \in 1 .. Len(config.periodSpendHistory) :
        k > Len(config.periodSpendHistory) - n}

\* the sum of the true spends at the positions, a negative one counting as 0
RECURSIVE FlooredTotal(_)
FlooredTotal(positions) ==
    IF positions = {} THEN 0
    ELSE LET k == CHOOSE i \in positions : TRUE
             spend == config.periodSpendHistory[k].trueSpend
         IN  (IF spend < 0 THEN 0 ELSE spend) + FlooredTotal(positions \ {k})

\* C15: calculateAverageBaseline(history, n) takes the last n entries,
\* counts a negative trueSpend as 0, and returns their mean rounded to 2
\* decimals (halves up) together with the number of entries averaged; it
\* returns null when the history is empty.
C15_AverageBaseline ==
    result.kind = "average" =>
        LET n     == config.periodsForBaselineCalc
            used  == LastPositions(n)
            total == FlooredTotal(used)
            count == Cardinality(used)
        IN  IF Len(config.periodSpendHistory) = 0
            THEN result.isNull
            ELSE /\ ~result.isNull
                 /\ result.count = count
                 /\ result.average % 10 = 0
                 /\ 2 * result.average * count - 10 * count <= 2 * total
                 /\ 2 * total < 2 * result.average * count + 10 * count

\* the memo has averaged the last n entries of a longer history, a
\* negative true spend among them, and the mean had to be rounded
C15_Witness ==
    /\ result.kind = "average"
    /\ ~result.isNull
    /\ Len(config.periodSpendHistory) > config.periodsForBaselineCalc
    /\ \E k \in LastPositions(config.periodsForBaselineCalc) :
          config.periodSpendHistory[k].trueSpend < 0
    /\ result.average * result.count
           # FlooredTotal(LastPositions(config.periodsForBaselineCalc))
    /\ result.average > 0

(***************************************************************************)
(* Claims about advancePassedDates (checked under SpecAdvance).            *)
(***************************************************************************)
\* what advancePassedDates returns for the stored budget today
Advanced == advancePassedDates(config, today, arg.aheadOfUTC)

\* the days between two pay dates of a weekly / biweekly schedule
PayInterval(frequency) ==
    IF frequency = "weekly" THEN 7 ELSE IF frequency = "biweekly" THEN 14 ELSE 1

\* advancePassedDates(cfg, now) = outcome moves no date backward, brings a
\* passed pay date to today or later by whole pay intervals, and leaves
\* nothing for a second application to change
AdvancesForward(cfg, now, outcome, aheadOfUTC) ==
    /\ outcome.config.nextPayDate >= cfg.nextPayDate
    /\ \A k \in 1 .. Len(cfg.recurringExpenses) :
          \/ cfg.recurringExpenses[k].nextDueDate = Null
          \/ outcome.config.recurringExpenses[k].nextDueDate
                 >= cfg.recurringExpenses[k].nextDueDate
    /\ isBefore(parseISO(cfg.nextPayDate), now) =>
          /\ outcome.changed
          /\ ~isBefore(parseISO(outcome.config.nextPayDate), now)
          /\ (outcome.config.nextPayDate - cfg.nextPayDate)
                 % PayInterval(cfg.paycheckFrequency) = 0
    /\ ~advancePassedDates(outcome.config, now, aheadOfUTC).changed

\* C17: advancePassedDates(config, today) never moves nextPayDate or an
\* expense's nextDueDate to an earlier date; whenever nextPayDate was
\* before today the returned nextPayDate is on or after today (for weekly /
\* biweekly a whole multiple of 7 / 14 days after the old one); and applied
\* again to its own result with the same today it returns null.
C17_AdvancesForward ==
    pc = "running" => AdvancesForward(config, today, Advanced, arg.aheadOfUTC)

\* the same on a machine whose local midnight is not on the previous UTC date
AdvancesForwardOnUTC ==
    (pc = "running" /\ ~arg.aheadOfUTC)
        => AdvancesForward(config, today, Advanced, arg.aheadOfUTC)

\* the expense at position k is advanced: it is returned with a later
\* nextDueDate; otherwise it is returned as it was
ExpenseAdvanced(k) ==
    Advanced.config.recurringExpenses[k].nextDueDate
        > config.recurringExpenses[k].nextDueDate

ExpenseKept(k) == Advanced.config.recurringExpenses[k] = config.recurringExpenses[k]

\* C18 as stated: an expense's nextDueDate is advanced exactly when it is
\* before today and (currentBalanceAsOf is unset or nextDueDate <=
\* currentBalanceAsOf).
C18_AdvancedUpToBalanceDate ==
    pc = "running" =>
        \A k \in 1 .. Len(config.recurringExpenses) :
           LET dueDate == config.recurringExpenses[k].nextDueDate
           IN  /\ ExpenseAdvanced(k) <=>
                      /\ dueDate < today
                      /\ \/ config.currentBalanceAsOf = Null
                         \/ dueDate <= config.currentBalanceAsOf
               /\ ExpenseAdvanced(k) \/ ExpenseKept(k)

\* C18 (amended): advancePassedDates advances an expense's nextDueDate
\* exactly when that date is before today and (currentBalanceAsOf is unset
\* or nextDueDate is before currentBalanceAsOf); an overdue expense due on
\* or after currentBalanceAsOf keeps its nextDueDate.
C18_AdvancedBeforeBalanceDate ==
    pc = "running" =>
        \A k \in 1 .. Len(config.recurringExpenses) :
           LET dueDate == config.recurringExpenses[k].nextDueDate
           IN  /\ ExpenseAdvanced(k) <=>
                      /\ dueDate < today
                      /\ \/ config.currentBalanceAsOf = Null
                         \/ dueDate < config.currentBalanceAsOf
               /\ ExpenseAdvanced(k) \/ ExpenseKept(k)

\* advancePassedDates has run today (the pay date is no longer behind) and
\* has kept an overdue expense that was due on the balance date
C18_Witness ==
    /\ pc = "running"
    /\ config.nextPayDate # AdvanceConfig("weekly", BaseDate, "weekly", Null).nextPayDate
    /\ ~isBefore(parseISO(config.nextPayDate), addDays(today, -1))
    /\ \E k \in 1 .. Len(config.recurringExpenses) :
          /\ config.recurringExpenses[k].nextDueDate < today
          /\ config.recurringExpenses[k].nextDueDate = config.currentBalanceAsOf
    /\ ~Advanced.changed

(***************************************************************************)
(* Claims about the historical periods and the calculated baseline         *)
(* (checked under SpecPeriods).                                            *)
(***************************************************************************)
\* the average the projection memo can use in place of baselineSpendPerPeriod
AverageOf(cfg) ==
    calculateAverageBaseline(cfg.periodSpendHistory, cfg.periodsForBaselineCalc)

\* the entries of config.periods the step from the current state confirms
ConfirmedBy(before, after) ==
    {j \in 1 .. Len(before) :
        /\ j <= Len(after)
        /\ before[j].status = "pending-confirmation"
        /\ after[j].status = "completed"
        /\ Len(after[j].varianceExplanations) > 0}

\* C16: the calculated baseline average is fed only by amounts classified
\* baseline_miss: every amount that enters the averaged history while the
\* app runs is the baseline_miss total of a period being confirmed, a confirmation whose
\* explanations are all adhoc_expense or planned_cost_higher leaves the
\* average as it is, and the projection uses the average only when
\* useCalculatedBaseline is on and at least periodsForBaselineCalc periods
\* are recorded.
C16_FedOnlyByBaselineMiss ==
    [][/\ pc = "running" =>
             \A k \in NewEntries(config.periodSpendHistory,
                                 config'.periodSpendHistory) :
                \E j \in ConfirmedBy(config.periods, config'.periods) :
                   config'.periodSpendHistory[k].trueSpend =
                       ExplainedTotal(config'.periods[j].varianceExplanations,
                                      {"baseline_miss"})
       /\ \A j \in ConfirmedBy(config.periods, config'.periods) :
             ExplainedTotal(config'.periods[j].varianceExplanations,
                            {"baseline_miss"}) = 0
                => AverageOf(config') = AverageOf(config)
       /\ ~(/\ config.useCalculatedBaseline
            /\ Len(config.periodSpendHistory) >= config.periodsForBaselineCalc)
             => MemoProjection(config, today) = generateProjection(config, Null, today)
      ]_vars

\* a confirmation whose explanations hold no baseline_miss leaves the
\* average as it is, and the memo uses the average only when the toggle is
\* on and enough periods are recorded
AverageKeptByOtherReasons ==
    [][/\ \A j \in ConfirmedBy(config.periods, config'.periods) :
             ExplainedTotal(config'.periods[j].varianceExplanations,
                            {"baseline_miss"}) = 0
                => AverageOf(config') = AverageOf(config)
       /\ ~(/\ config.useCalculatedBaseline
            /\ Len(config.periodSpendHistory) >= config.periodsForBaselineCalc)
             => MemoProjection(config, today) = generateProjection(config, Null, today)
      ]_vars

\* a confirmation never changes the averaged history, whatever its
\* explanations
ConfirmationKeepsHistory ==
    [][ConfirmedBy(config.periods, config'.periods) # {}
          => config'.periodSpendHistory = config.periodSpendHistory]_vars

\* the entries are in ascending periodNumber order
PeriodsAscending(periods) ==
    \A k \in 1 .. Len(periods) - 1 :
       periods[k].periodNumber < periods[k + 1].periodNumber

\* at most one entry awaits confirmation
AtMostOnePending(periods) ==
    Cardinality({k \in 1 .. Len(periods) :
                    periods[k].status = "pending-confirmation"}) <= 1

\* no entry of before is removed or moved, a completed entry is the same in
\* after, and an entry that differs was pending and is completed
KeepsCompleted(before, after) ==
    /\ Len(after) >= Len(before)
    /\ \A k \in 1 .. Len(before) :
          /\ after[k].periodNumber = before[k].periodNumber
          /\ before[k].status = "completed" => after[k] = before[k]
          /\ after[k] # before[k] =>
                 /\ before[k].status = "pending-confirmation"
                 /\ after[k].status = "completed"

\* C19: across confirmation, dismissal, start-new-cycle and load-time
\* migration config.periods stays in ascending periodNumber order with no
\* entry removed, at most one entry is pending-confirmation, and a
\* completed entry is never modified again: confirm and dismiss touch only
\* the pending entry and move it to completed.
C19_PeriodsAppendOnly ==
    [][/\ PeriodsAscending(config'.periods)
       /\ AtMostOnePending(config'.periods)
       /\ KeepsCompleted(config.periods, config'.periods)]_vars

\* a migrated entry is followed by an entry that was pending, was confirmed
\* 80.00 under its projection and is completed, after a new cycle started
C19_Witness ==
    /\ pc = "running"
    /\ Len(config.periods) >= 2
    /\ config.periods[1].status = "completed"
    /\ config.periods[1].baselineSpend = 50000
    /\ config.periods[2].status = "completed"
    /\ config.periods[2].variance = 80000
    /\ Len(config.periods[2].varianceExplanations) > 0
    /\ config.budgetStartDate = NewDate(2023, 11, 30)

\* C21: once budgetStartDate is set, no operation other than the explicit
\* start-new-cycle action changes it: balance updates, confirmation,
\* dismissal and the load-time migration return configs with the same
\* budgetStartDate.
C21_StartDateImmutable ==
    [][(config.budgetStartDate # Null /\ ~HandleStartNewCycle)
          => config'.budgetStartDate = config.budgetStartDate]_vars

\* the handlers of the running app other than the load keep a
\* budgetStartDate that is set
StartDateKeptByHandlers ==
    [][(config.budgetStartDate # Null /\ ~HandleStartNewCycle /\ ~ReloadBudget)
          => config'.budgetStartDate = config.budgetStartDate]_vars

(***************************************************************************)
(* Claims about the legacy migration (checked under SpecMigration).        *)
(***************************************************************************)
\* after is before with its legacy history migrated: periods of the same
\* length and order, numbered by index, completed, with the balances of
\* the entries
MigratedAsRecorded(before, after) ==
    /\ Len(after.periods) = Len(before.periodSpendHistory)
    /\ \A k \in 1 .. Len(before.periodSpendHistory) :
          /\ after.periods[k].periodNumber = k - 1
          /\ after.periods[k].status = "completed"
          /\ after.periods[k].endDate = before.periodSpendHistory[k].periodEndDate
          /\ after.periods[k].endingBalance =
                 before.periodSpendHistory[k].actualEnding
          /\ after.periods[k].projectedEndingBalance =
                 before.periodSpendHistory[k].expectedEnding

\* C22: the legacy migration is idempotent: needsMigration is false for a
\* config with periods, migrateToHistoricalPeriods returns such a config
\* unchanged, and migrating a legacy history produces periods of the same
\* length and order (periodNumber = index, status completed, endingBalance
\* = actualEnding, projectedEndingBalance = expectedEnding), so that a
\* second load performs no migration.
C22_MigrationIdempotent ==
    [][(pc = "fetched" \/ pc = "loaded") =>
          (/\ Len(config.periods) > 0 =>
                  /\ ~needsMigration(config)
                  /\ migrateToHistoricalPeriods(config, today) = config
                  /\ config' = config
           /\ needsMigration(config) =>
                  /\ MigratedAsRecorded(config, config')
                  /\ ~needsMigration(config')
                  /\ loadBudget(config', today) = config')]_vars

\* a legacy history of two entries has been migrated and the document
\* loaded again
C22_Witness ==
    /\ pc = "loaded again"
    /\ Len(config.periodSpendHistory) >= 2
    /\ Len(config.periods) = Len(config.periodSpendHistory)
    /\ config.periods[2].periodNumber = 1
    /\ config.periods[2].startDate = addDays(config.periods[1].endDate, 1)
    /\ config.periods[1].endingBalance # config.periods[2].endingBalance

\* C23: with variance = expectedEnding - actualEnding, a migrated period
\* receives a baseline_miss explanation (affectsBaseline, amount
\* |variance|) exactly when variance > 0, the sign for which the
\* confirmation flow treats the period as overspent; a period with
\* variance <= 0 receives no explanation.
C23_SignConvention ==
    [][(pc = "fetched" /\ needsMigration(config)) =>
          \A k \in 1 .. Len(config.periodSpendHistory) :
             LET variance == config.periodSpendHistory[k].expectedEnding
                                 - config.periodSpendHistory[k].actualEnding
             IN  config'.periods[k].varianceExplanations =
                     IF variance > 0
                     THEN <<[reason |-> "baseline_miss", amount |-> Abs(variance),
                             affectsBaseline |-> TRUE]>>
                     ELSE <<>>]_vars

(***************************************************************************)
(* Claims about dates that do not parse (checked under SpecMalformed).     *)
(***************************************************************************)
\* the call under way was handed a nextPayDate or a nextDueDate that does
\* not parse
MalformedCall ==
    /\ pc # "start"
    /\ \/ isNaN(parseISO(config.nextPayDate))
       \/ \E k \in 1 .. Len(config.recurringExpenses) :
             isNaN(parseISO(config.recurringExpenses[k].nextDueDate))

\* no entry collected so far is built from an Invalid Date
NoInvalidEntries ==
    /\ \A k \in 1 .. Len(dates) : ~isNaN(dates[k])
    /\ \A k \in 1 .. Len(allOccurrences) : ~isNaN(allOccurrences[k].date)

\* C24: a malformed nextPayDate or nextDueDate makes generatePayDates and
\* generateExpenseOccurrences fail fast with a thrown error: for every
\* frequency the call ends with the error, never loops without bound, and
\* never returns entries built from an invalid date.
C24_FailsFast ==
    /\ [](pc = "returned" => NoInvalidEntries)
    /\ (MalformedCall ~> (pc = "thrown"))

\* a call with dates that parse returns
ValidCallsReturn ==
    (pc # "start" /\ ~MalformedCall) ~> (pc = "returned")

(***************************************************************************)
(* Claims about persistence (checked under SpecStorage).                   *)
(***************************************************************************)
\* C25: with saves fire-and-forget and completing in any order, once all
\* outstanding saveBudget requests have completed the persisted document
\* equals the most recent in-memory config; an earlier save finishing late
\* never leaves an older config on disk.
C25_LastSaveWins ==
    (pc = "loaded" /\ arg.inflight = {}) => arg.disk = Document(config)

\* C29: when loadBudget returned null because reading or parsing the
\* stored config failed, the app does not overwrite the stored document
\* with DEFAULT_CONFIG through the auto-save that starts once isLoaded is
\* true.
C29_FailedLoadKeepsDocument ==
    [][(pc = "loaded" /\ arg.saved = "null" /\ arg.disk.kind # "none")
          => arg'.disk # Document(DEFAULT_CONFIG)]_vars

\* as long as at most one save is under way the document on disk is the
\* in-memory config once the save has completed
OneSaveAtATime ==
    (pc = "loaded" /\ arg.inflight = {} /\ arg.issued = 1) => arg.disk = Document(config)

(***************************************************************************)
(* Claims about what an automatic transition conserves (checked under      *)
(* SpecTransition).                                                        *)
(***************************************************************************)
\* the step is the auto-advance effect run after a pay date has passed
\* with no balance entered since
AutomaticTransition ==
    /\ EffectRuns
    /\ isBefore(parseISO(config.nextPayDate), today)
    /\ \/ config.currentBalanceAsOf = Null
       \/ isBefore(parseISO(config.currentBalanceAsOf), parseISO(config.nextPayDate))

\* the config the auto-advance effect stores for cfg on the day now
DayChangeOutcome(cfg, now, env) ==
    EffectOutcome(cfg,
                  handlePeriodTransition(cfg, now, env.utcShift, env.aheadOfUTC,
                                         generateProjection(cfg, Null, now)),
                  now, env.aheadOfUTC)

\* period 1 of a projection
PeriodOne(proj) ==
    proj[CHOOSE j \in 1 .. Len(proj) : proj[j].periodNumber = 1]

\* the paychecks in balanceAfterIncome of period 1 of the projection that
\* follows the day change: what that balance gains when paycheckAmount is
\* 1.00 higher
PaychecksReflected(cfg, now, env) ==
    LET more == [cfg EXCEPT !.paycheckAmount = @ + 1000]
    IN  (PeriodOne(generateProjection(DayChangeOutcome(more, now, env), Null, now))
             .balanceAfterIncome
         - PeriodOne(generateProjection(DayChangeOutcome(cfg, now, env), Null, now))
             .balanceAfterIncome) \div 1000

\* the pay dates of the schedule of cfg that lie before the day now
PassedPayDates(cfg, now) ==
    LET payDates == generatePayDates(cfg, 8)
    IN  {k \in 1 .. Len(payDates) : isBefore(payDates[k], now)}

\* C26: when a pay date passes with no balance update and the day-change
\* handler runs, the paycheck of each passed pay date is reflected exactly
\* once in the balances of the following projection: the balance after
\* income of its period 1 holds one paycheck per passed pay date and the
\* paycheck of period 1.
C26_PaycheckConserved ==
    [][AutomaticTransition =>
          PaychecksReflected(config, today, arg)
              = Cardinality(PassedPayDates(config, today)) + 1]_vars

\* the occurrences subtracted in the balance the transition sets: the
\* expenseDetails of the period handlePeriodTransition reads
SubtractedByTransition(cfg, now) ==
    LET details == CurrentPeriod(generateProjection(cfg, Null, now)).expenseDetails
    IN  {details[k] : k \in 1 .. Len(details)}

\* the occurrences the projection proj subtracts
SubtractedByProjection(proj) ==
    UNION {{proj[j].expenseDetails[k] : k \in 1 .. Len(proj[j].expenseDetails)} :
              j \in 1 .. Len(proj)}

\* C27: no recurring-expense occurrence is subtracted twice across an
\* automatic transition: an occurrence subtracted when handlePeriodTransition
\* computes the new currentBalance is not subtracted again by the projection
\* generated after the transition and advancePassedDates.
C27_NoDoubleSubtraction ==
    [][(AutomaticTransition /\ result'.kind = "transition") =>
          SubtractedByTransition(config, today)
              \cap SubtractedByProjection(generateProjection(config', Null, today))
          = {}]_vars

(***************************************************************************)
(* Claims about the windows of one projection (checked under               *)
(* SpecProjection).                                                        *)
(***************************************************************************)
\* the occurrences counted in the expenses of entries lo .. hi, one element
\* per time an entry counts one
RECURSIVE CountedIn(_, _)
CountedIn(lo, hi) ==
    IF lo > hi THEN <<>>
    ELSE IF lo = hi THEN projection[lo].expenseDetails
    ELSE LET mid == (lo + hi) \div 2
         IN  CountedIn(lo, mid) \o CountedIn(mid + 1, hi)

\* the last day of the window of the last entry emitted
LastWindowEnd ==
    LET n == projection[Len(projection)].periodNumber
    IN  IF n = 0 THEN dates[1] - 1
        ELSE IF n < Len(dates) THEN dates[n + 1] - 1
        ELSE addMonths(dates[n], 1)

\* the generated occurrences dated from the period-0 anchor through the end
\* of the last emitted period
OccurrencesInTimeline ==
    SelectSeq(allOccurrences,
              LAMBDA occ : /\ Period0Start(config, today) <= occ.date
                           /\ occ.date <= LastWindowEnd)

SetOf(seq) == {seq[k] : k \in 1 .. Len(seq)}

\* C28: within one generateProjection result every recurring-expense
\* occurrence dated from the period-0 anchor through the end of the last
\* emitted period is counted in the expenses of exactly one entry: none is
\* counted twice, none is skipped, and nothing else is counted.
C28_WindowsPartition ==
    (pc = "projected" /\ Len(projection) > 0) =>
        LET counted == CountedIn(1, Len(projection))
        IN  /\ Cardinality(SetOf(counted)) = Len(counted)
            /\ SetOf(counted) = SetOf(OccurrencesInTimeline)

\* two consecutive pay dates coincide after weekend adjustment, and the
\* later of the two periods and period 0 both count occurrences
C28_Witness ==
    /\ pc = "projected"
    /\ HasPeriod0
    /\ projection[1].expenseDetails # <<>>
    /\ \E j \in 2 .. Len(projection) - 1 :
          /\ projection[j].date = projection[j + 1].date
          /\ projection[j].expenseDetails = <<>>
          /\ projection[j + 1].expenseDetails # <<>>

\* no period 0 is emitted and the periods count occurrences
NoPeriod0Counted ==
    /\ pc = "projected"
    /\ Len(projection) > 1
    /\ ~HasPeriod0
    /\ projection[1].expenseDetails # <<>>

(***************************************************************************)
(* Claims about the goal date and the early end of the projection          *)
(* (checked under SpecProjection).                                         *)
(***************************************************************************)
\* a goal above every balance a projection of cfg can hold
UnreachableGoal(cfg) ==
    cfg.currentBalance + (maxPeriods + 1) * cfg.paycheckAmount
        + SumAmounts(cfg.adHocTransactions) + 1

\* the projection of cfg that is not ended early: the entries do not depend
\* on savingsGoal, only where the loop breaks does
Untruncated(cfg, baselineOverride, now) ==
    generateProjection([cfg EXCEPT !.savingsGoal = UnreachableGoal(cfg)],
                       baselineOverride, now)

\* the date of the first full period of proj whose balanceAfterBaseline is
\* at or above goal (Null if none)
FirstFullCrossing(proj, goal) ==
    LET hits == {j \in 1 .. Len(proj) : /\ proj[j].periodNumber >= 1
                                        /\ proj[j].balanceAfterBaseline >= goal}
    IN  IF hits = {} THEN Null
        ELSE proj[CHOOSE j \in hits : \A k \in hits : j <= k].date

\* C30: early termination never hides the goal date: for savingsGoal > 0,
\* if some full period of the untruncated 260-period projection has
\* balanceAfterBaseline >= savingsGoal, calculateGoalDates on the generated
\* projection returns as dateAfterBaseline the pay date of the first such
\* period, also when period 0 already meets the goal and later periods dip
\* below it.
C30_GoalDateNotHidden ==
    (pc = "goal" /\ config.savingsGoal > 0) =>
        LET crossing == FirstFullCrossing(Untruncated(config, arg.baselineOverride, today),
                                          config.savingsGoal)
        IN  crossing # Null => goalDates.dateAfterBaseline = crossing

\* the same when period 0 does not meet the goal or is not emitted
GoalDateFoundFromFullPeriods ==
    (/\ pc = "goal"
     /\ config.savingsGoal > 0
     /\ ~(HasPeriod0 /\ projection[1].balanceAfterBaseline >= config.savingsGoal)) =>
        LET crossing == FirstFullCrossing(Untruncated(config, arg.baselineOverride, today),
                                          config.savingsGoal)
        IN  crossing # Null => goalDates.dateAfterBaseline = crossing

====
